---- MODULE Spec2Model ----
(***************************************************************************)
(* A model of the motion tracker (src/unnamed/part_000, first copy of      *)
(* App.jsx, lines 25-2278): the calibration transform, the three-point     *)
(* velocity estimator, the regression engine, the nice-numbers axis scale  *)
(* and the calibration handlers of the tracker view.                       *)
(*                                                                         *)
(* Numbers.  A JavaScript number is modelled as an exact rational          *)
(* [n |-> numerator, d |-> denominator] in lowest terms with d > 0; the    *)
(* non-finite doubles are the records with d = 0 (NaN, PosInf, NegInf).    *)
(* Arithmetic is exact: the rounding error of IEEE doubles and the sign of *)
(* zero are not modelled.  The JavaScript value null is NULL.              *)
(***************************************************************************)
EXTENDS Integers, Sequences, FiniteSets, TLC

NULL == [null |-> TRUE]
NaN == [n |-> 0, d |-> 0]
PosInf == [n |-> 1, d |-> 0]
NegInf == [n |-> -1, d |-> 0]

Abs(i) == IF i < 0 THEN -i ELSE i
Sgn(i) == IF i < 0 THEN -1 ELSE IF i > 0 THEN 1 ELSE 0

RECURSIVE GCD(_, _)
GCD(a, b) == IF b = 0 THEN a ELSE GCD(b, a % b)

\* The number n/d (d # 0) in lowest terms.
Rat(n, d) ==
  LET g == GCD(Abs(n), Abs(d))
      s == IF d < 0 THEN -1 ELSE 1
  IN  [n |-> s * (n \div g), d |-> s * (d \div g)]

Num(i) == [n |-> i, d |-> 1]
Zero == Num(0)
One == Num(1)

isFinite(v) == v = NULL \/ v.d # 0
isNaN(v) == v # NULL /\ v.d = 0 /\ v.n = 0
\* JavaScript truthiness of a number or null: null, 0 and NaN are falsy.
Truthy(v) == v # NULL /\ v.n # 0

Neg(a) == [n |-> -a.n, d |-> a.d]

Add(a, b) ==
  IF a.d # 0 /\ b.d # 0
  THEN Rat(a.n * (b.d \div GCD(a.d, b.d)) + b.n * (a.d \div GCD(a.d, b.d)),
           (a.d \div GCD(a.d, b.d)) * b.d)
  ELSE IF isNaN(a) \/ isNaN(b) THEN NaN
  ELSE IF a.d = 0 /\ b.d = 0 THEN (IF a.n = b.n THEN a ELSE NaN)
  ELSE IF a.d = 0 THEN a ELSE b

Sub(a, b) == Add(a, Neg(b))

Mul(a, b) ==
  IF a.d # 0 /\ b.d # 0
  THEN LET g1 == GCD(Abs(a.n), b.d)
           g2 == GCD(Abs(b.n), a.d)
       IN  Rat((a.n \div g1) * (b.n \div g2), (a.d \div g2) * (b.d \div g1))
  ELSE IF isNaN(a) \/ isNaN(b) \/ a.n = 0 \/ b.n = 0 THEN NaN
  ELSE [n |-> Sgn(a.n) * Sgn(b.n), d |-> 0]

Div(a, b) ==
  IF a.d # 0 /\ b.d # 0
  THEN IF b.n = 0
       THEN (IF a.n = 0 THEN NaN ELSE [n |-> Sgn(a.n), d |-> 0])
       ELSE Mul(a, Rat(b.d, b.n))
  ELSE IF isNaN(a) \/ isNaN(b) \/ (a.d = 0 /\ b.d = 0) THEN NaN
  ELSE IF a.d = 0 THEN [n |-> a.n * (IF b.n < 0 THEN -1 ELSE 1), d |-> 0]
  ELSE Zero

\* a < b, false when either side is NaN.
Lt(a, b) ==
  IF isNaN(a) \/ isNaN(b) THEN FALSE
  ELSE IF a.d = 0 THEN a.n < 0 /\ b # NegInf
  ELSE IF b.d = 0 THEN b.n > 0
  ELSE a.n * (b.d \div GCD(a.d, b.d)) < b.n * (a.d \div GCD(a.d, b.d))

Gt(a, b) == Lt(b, a)
Le(a, b) == Lt(a, b) \/ (~isNaN(a) /\ a = b)
Ge(a, b) == Le(b, a)

MathAbs(a) == [n |-> Abs(a.n), d |-> a.d]

RECURSIVE Pow10(_)
Pow10(k) == IF k = 0 THEN 1 ELSE 10 * Pow10(k - 1)

\* n/d < 10^-e (strict) or n/d <= 10^-e, for n >= 0 and d > 0, computed without
\* forming 10^e.
RECURSIVE BelowPow10(_, _, _, _)
BelowPow10(n, d, e, strict) ==
  IF e = 0 THEN (IF strict THEN n < d ELSE n <= d)
  ELSE IF n = 0 THEN TRUE
  ELSE IF n > d \div 10 THEN FALSE
  ELSE BelowPow10(10 * n, d, e - 1, strict)

\* Math.abs(v) < 10^-e
AbsLtPow10(v, e) == v.d # 0 /\ BelowPow10(Abs(v.n), v.d, e, TRUE)
\* Math.abs(v) > 10^-e
AbsGtPow10(v, e) == ~isNaN(v) /\ (v.d = 0 \/ ~BelowPow10(Abs(v.n), v.d, e, FALSE))

\* parseFloat(v.toFixed(digits)): the nearest multiple of 10^-digits, a tie
\* going to the larger magnitude; a non-finite value is returned as it is.
toFixed(v, digits) ==
  IF v.d = 0 THEN v
  ELSE LET p == Pow10(digits)
           w == Abs(v.n) \div v.d
           r == Abs(v.n) % v.d
           q == w * p + ((2 * r * p + v.d) \div (2 * v.d))
       IN  Rat(Sgn(v.n) * q, p)


(***************************************************************************)
(* State.                                                                  *)
(***************************************************************************)
VARIABLES
  objects,            \* [A |-> points of Object A, B |-> points of Object B], stored order
  activeObjId,        \* "A" or "B"
  pixelsPerMeter,     \* a number or NULL
  origin,             \* a pixel point [x, y] or NULL
  originAngle,        \* the rotation of the axes, an Angle
  zeroTime,           \* the zero-time display policy
  uncertaintyPx,
  calibrationPoints,  \* a sequence of pixel points
  isCalibrating,
  showInputModal,
  realDistanceInput,  \* the text of the distance input, a sequence of characters
  isScaleVisible,
  isTracking,
  isSettingOrigin,
  videoSrc,           \* TRUE when a video is attached
  videoDims,          \* [w, h]
  hasRestoredData,    \* data was restored from a project file and no video attached since
  lastAlert,          \* the message of the alert() raised by the last handler, "" if none
  positionData,       \* the derived position series (useMemo)
  velocityData,       \* the derived velocity series (useMemo)
  fitModel,           \* "none" | "linear" | "quadratic"
  plotX,              \* the field plotted on the x axis
  plotY,              \* the field plotted on the y axis
  fitEquation,        \* the derived fit (useMemo), NULL when there is none
  niceArgs,           \* the arguments of the last calculateNiceScale call, or NULL
  niceScale,          \* its result, or NULL
  dragState,          \* what the pointer is dragging, "null" when nothing
  draggedPointIndex,  \* the index of the dragged point, 0 when there is none
  isHoveringTrash,
  reticlePos,         \* a pixel point or NULL
  dragStart,          \* dragStartRef.current: where the pointer went down
  dragOffset,         \* dragOffsetRef.current: reticle position minus pointer position
  currentTime,        \* videoRef.current.currentTime, in seconds
  currentFrameIndex,
  isPlaying,
  language,           \* "en" or "es"
  fps                 \* the frame rate the stepping assumes

trackVars == <<objects, activeObjId>>
frameVars == <<pixelsPerMeter, origin, originAngle, zeroTime, uncertaintyPx>>
calibVars == <<calibrationPoints, isCalibrating, showInputModal, realDistanceInput,
               isScaleVisible>>
modeVars == <<isTracking, isSettingOrigin>>
videoVars == <<videoSrc, videoDims, hasRestoredData>>
seriesVars == <<positionData, velocityData>>
graphVars == <<fitModel, plotX, plotY, fitEquation>>
scaleVars == <<niceArgs, niceScale>>
pointerVars == <<dragState, draggedPointIndex, isHoveringTrash, reticlePos, dragStart,
                 dragOffset>>
playerVars == <<currentTime, currentFrameIndex, isPlaying>>
prefVars == <<language, fps>>

vars == <<trackVars, frameVars, calibVars, modeVars, videoVars, lastAlert,
          seriesVars, graphVars, scaleVars, pointerVars, playerVars, prefVars>>

(***************************************************************************)
(* Calibration transform.  An angle is the record of its cosine and sine,  *)
(* so that Math.cos and Math.sin are exact; Angle0 is the angle 0.         *)
(***************************************************************************)
Angle0 == [cos |-> One, sin |-> Zero]
MathCos(a) == a.cos
MathSin(a) == a.sin

Pt(x, y) == [x |-> x, y |-> y]

\* A transform that is not a rotation: y is taken along the x axis too.
rotatedSheared(dx, dy, cos, sin) ==
  Pt(Add(Mul(dx, cos), Mul(dy, sin)), Neg(Add(Mul(dx, sin), Mul(dy, cos))))

\* The rotation of the offset (dx, dy), with the y axis flipped to point up.
rotated(dx, dy, cos, sin) ==
  Pt(Add(Mul(dx, cos), Mul(dy, sin)), Neg(Add(Mul(Neg(dx), sin), Mul(dy, cos))))

\* getRotatedCoords without the flip of the y axis.
getRotatedCoordsNoFlip(rawX, rawY, org, ang) ==
  IF org = NULL THEN Pt(rawX, rawY)
  ELSE LET r == rotated(Sub(rawX, org.x), Sub(rawY, org.y), MathCos(ang), MathSin(ang))
       IN  [r EXCEPT !.y = Neg(@)]

getRotatedCoords(rawX, rawY, org, ang) ==
  IF org = NULL THEN Pt(rawX, rawY)
  ELSE rotated(Sub(rawX, org.x), Sub(rawY, org.y), MathCos(ang), MathSin(ang))

\* formatVal dividing by any scale that is set, a zero one included.
formatValAlwaysDivides(val, ppm) ==
  IF ppm # NULL THEN Div(val, ppm) ELSE val

formatVal(val, ppm) == IF Truthy(ppm) THEN Div(val, ppm) ELSE val

\* The calibrated point of a pixel point: getRotatedCoords, then formatVal on
\* each component.
formatPt(r, ppm) == Pt(formatVal(r.x, ppm), formatVal(r.y, ppm))
calibratedPoint(p, org, ang, ppm) == formatPt(getRotatedCoords(p.x, p.y, org, ang), ppm)

(***************************************************************************)
(* Derived series: startTime and the positionData/velocityData useMemo.    *)
(***************************************************************************)
RECURSIVE MinTime(_)
MinTime(pts) ==
  IF Len(pts) = 1 THEN Head(pts).time
  ELSE LET m == MinTime(Tail(pts))
       IN  IF Lt(Head(pts).time, m) THEN Head(pts).time ELSE m

startTimeOf(pts) == IF Len(pts) > 0 THEN MinTime(pts) ELSE Zero

\* Array.prototype.sort with (a, b) => a.time - b.time: a stable sort.
RECURSIVE InsertByTime(_, _)
InsertByTime(s, p) ==
  IF s = <<>> THEN <<p>>
  ELSE IF Gt(Head(s).time, p.time) THEN <<p>> \o s
  ELSE <<Head(s)>> \o InsertByTime(Tail(s), p)

RECURSIVE sortByTime(_)
sortByTime(pts) ==
  IF pts = <<>> THEN <<>>
  ELSE InsertByTime(sortByTime(SubSeq(pts, 1, Len(pts) - 1)), pts[Len(pts)])

DtMin == Rat(1, 10000)

adjustedTimeOf(p, start, zt) == IF zt THEN Sub(p.time, start) ELSE p.time

uncertaintyMetersOf(uPx, ppm) == IF Truthy(ppm) THEN Div(uPx, ppm) ELSE Zero

\* The position sample of a point whose rotated coordinates are r.
posRecord(p, r, start, ppm, zt, uPx) ==
  [time  |-> toFixed(adjustedTimeOf(p, start, zt), 3),
   x     |-> toFixed(formatVal(r.x, ppm), 3),
   y     |-> toFixed(formatVal(r.y, ppm), 3),
   error |-> toFixed(uncertaintyMetersOf(uPx, ppm), 3)]

posSample(p, start, org, ang, ppm, zt, uPx) ==
  posRecord(p, getRotatedCoords(p.x, p.y, org, ang), start, ppm, zt, uPx)

\* The calibrated coordinates of the i-th sorted point (i counted from 0).
calAt(sp, i, org, ang, ppm) == calibratedPoint(sp[i + 1], org, ang, ppm)

\* forwardDiff dividing by dt instead of 2*dt.
\* (-3a + 4b - c) / den
threePointForward(a, b, c, den) == Div(Sub(Add(Mul(Num(-3), a), Mul(Num(4), b)), c), den)
\* (3a - 4b + c) / den
threePointBackward(a, b, c, den) == Div(Add(Sub(Mul(Num(3), a), Mul(Num(4), b)), c), den)

\* The forward formula on the calibrated points c0, c1, c2 over the divisor
\* den, NULL when dt is too small.
forwardOf(c0, c1, c2, dt, den) ==
  IF Gt(dt, DtMin)
  THEN [vx |-> threePointForward(c0.x, c1.x, c2.x, den),
        vy |-> threePointForward(c0.y, c1.y, c2.y, den)]
  ELSE NULL

backwardOf(cN, cN1, cN2, dt, den) ==
  IF Gt(dt, DtMin)
  THEN [vx |-> threePointBackward(cN.x, cN1.x, cN2.x, den),
        vy |-> threePointBackward(cN.y, cN1.y, cN2.y, den)]
  ELSE NULL

\* forwardDiff dividing by dt instead of 2*dt.
forwardDiffNoHalf(sp, org, ang, ppm) ==
  forwardOf(calAt(sp, 0, org, ang, ppm), calAt(sp, 1, org, ang, ppm),
            calAt(sp, 2, org, ang, ppm),
            Sub(sp[2].time, sp[1].time), Sub(sp[2].time, sp[1].time))

\* [vx, vy] of the forward formula at the first point, NULL when dt is too small.
forwardDiff(sp, org, ang, ppm) ==
  forwardOf(calAt(sp, 0, org, ang, ppm), calAt(sp, 1, org, ang, ppm),
            calAt(sp, 2, org, ang, ppm),
            Sub(sp[2].time, sp[1].time), Mul(Num(2), Sub(sp[2].time, sp[1].time)))

\* [vx, vy] of the backward formula at the last point (index N).
backwardDiff(sp, N, org, ang, ppm) ==
  backwardOf(calAt(sp, N, org, ang, ppm), calAt(sp, N - 1, org, ang, ppm),
             calAt(sp, N - 2, org, ang, ppm),
             Sub(sp[N + 1].time, sp[N].time), Mul(Num(2), Sub(sp[N + 1].time, sp[N].time)))

\* centralDiff dividing by the gap to the next point instead of the span of
\* both neighbours.
\* (nxt - prv) / dt on both components.
twoPoint(prv, nxt, dt) ==
  [vx |-> Div(Sub(nxt.x, prv.x), dt), vy |-> Div(Sub(nxt.y, prv.y), dt)]

centralOf(prv, nxt, dt) == IF Gt(dt, DtMin) THEN twoPoint(prv, nxt, dt) ELSE NULL

centralDiffOneGap(sp, i, org, ang, ppm) ==
  centralOf(calAt(sp, i - 1, org, ang, ppm), calAt(sp, i + 1, org, ang, ppm),
            Sub(sp[i + 2].time, sp[i + 1].time))

\* centralDiff without the dt > 0.0001 guard.
centralDiffUnguarded(sp, i, org, ang, ppm) ==
  twoPoint(calAt(sp, i - 1, org, ang, ppm), calAt(sp, i + 1, org, ang, ppm),
           Sub(sp[i + 2].time, sp[i].time))

\* [vx, vy] of the central formula at an interior point (index i).
centralDiff(sp, i, org, ang, ppm) ==
  centralOf(calAt(sp, i - 1, org, ang, ppm), calAt(sp, i + 1, org, ang, ppm),
            Sub(sp[i + 2].time, sp[i].time))

\* velSample stamping the sample with the raw timestamp, whatever the zero-time
\* policy.
\* The formula of index i: forward at the first point, backward at the last,
\* central in between.
velocityAt(sp, i, org, ang, ppm) ==
  IF i = 0 THEN forwardDiff(sp, org, ang, ppm)
  ELSE IF i = Len(sp) - 1 THEN backwardDiff(sp, Len(sp) - 1, org, ang, ppm)
  ELSE centralDiff(sp, i, org, ang, ppm)

\* The velocity sample pushed for the velocity v at the time t, NULL for none.
velRecord(v, t) ==
  IF v = NULL THEN NULL
  ELSE [time  |-> toFixed(t, 3),
        vx    |-> toFixed(v.vx, 3),
        vy    |-> toFixed(v.vy, 3),
        x     |-> NULL,
        y     |-> NULL,
        error |-> NULL]

\* velSample stamping the sample with the raw timestamp, whatever the zero-time
\* policy.
velSampleRawTime(sp, i, start, org, ang, ppm, zt) ==
  velRecord(velocityAt(sp, i, org, ang, ppm), sp[i + 1].time)

\* One turn of the velocity loop: the sample pushed for index i, or NULL.
velSample(sp, i, start, org, ang, ppm, zt) ==
  velRecord(velocityAt(sp, i, org, ang, ppm), adjustedTimeOf(sp[i + 1], start, zt))

\* velLoop with the guard N < 1: two points already give a two-point velocity.
velLoopFromTwo(sp, start, org, ang, ppm, zt) ==
  LET N == Len(sp) - 1
  IN  IF N < 1 THEN <<>>
      ELSE IF N = 1
      THEN SelectSeq(<< velRecord(centralOf(calAt(sp, 0, org, ang, ppm),
                                            calAt(sp, 1, org, ang, ppm),
                                            Sub(sp[2].time, sp[1].time)),
                                  adjustedTimeOf(sp[1], start, zt)) >>,
                     LAMBDA s : s # NULL)
      ELSE SelectSeq([k \in 1..Len(sp) |-> velSample(sp, k - 1, start, org, ang, ppm, zt)],
                     LAMBDA s : s # NULL)

velLoop(sp, start, org, ang, ppm, zt) ==
  LET N == Len(sp) - 1
  IN  IF N < 2 THEN <<>>
      ELSE SelectSeq([k \in 1..Len(sp) |-> velSample(sp, k - 1, start, org, ang, ppm, zt)],
                     LAMBDA s : s # NULL)

\* The useMemo: points.sort sorts the array held by the active object in place;
\* the result names the sorted array and the two derived series.
seriesOf(sortedPoints, start, org, ang, ppm, zt, uPx) ==
  [points       |-> sortedPoints,
   positionData |-> [k \in 1..Len(sortedPoints) |->
                       posSample(sortedPoints[k], start, org, ang, ppm, zt, uPx)],
   velocityData |-> velLoop(sortedPoints, start, org, ang, ppm, zt)]

\* computeData deriving the series from the points in their stored order.
computeDataAsStored(pts, org, ang, ppm, zt, uPx) ==
  seriesOf(pts, startTimeOf(pts), org, ang, ppm, zt, uPx)

computeData(pts, org, ang, ppm, zt, uPx) ==
  seriesOf(sortByTime(pts), startTimeOf(pts), org, ang, ppm, zt, uPx)


(***************************************************************************)
(* Regression engine: solveLinearSystem and the fitEquation useMemo.       *)
(* A matrix is a function from 1..n to rows, a row a function from         *)
(* 1..(n + 1) (the augmented column last); indices count from 1.           *)
(***************************************************************************)
PivotEpsExp == 10
LinearEpsExp == 9

RECURSIVE Sum(_)
Sum(arr) == IF arr = <<>> THEN Zero ELSE Add(Sum(SubSeq(arr, 1, Len(arr) - 1)), arr[Len(arr)])

\* The row holding the largest |A[k][i]| for k >= i, the first one on a tie.
RECURSIVE findMaxRow(_, _, _, _, _)
findMaxRow(A, n, i, k, maxRow) ==
  IF k > n THEN maxRow
  ELSE IF Gt(MathAbs(A[k][i]), MathAbs(A[maxRow][i]))
       THEN findMaxRow(A, n, i, k + 1, k)
       ELSE findMaxRow(A, n, i, k + 1, maxRow)

\* Rows i and maxRow exchanged in the columns from i on.
swapRows(A, n, i, maxRow) ==
  [k \in 1..n |->
     [j \in 1..(n + 1) |->
        IF j < i THEN A[k][j]
        ELSE IF k = i THEN A[maxRow][j]
        ELSE IF k = maxRow THEN A[i][j]
        ELSE A[k][j]]]

\* Column i eliminated below row i, unless the pivot is below 1e-10.
eliminateBelow(A, n, i) ==
  IF AbsLtPow10(A[i][i], PivotEpsExp) THEN A
  ELSE [k \in 1..n |->
          IF k <= i THEN A[k]
          ELSE LET c == Neg(Div(A[k][i], A[i][i]))
               IN  [j \in 1..(n + 1) |->
                      IF j < i THEN A[k][j]
                      ELSE IF j = i THEN Zero
                      ELSE Add(A[k][j], Mul(c, A[i][j]))]]

RECURSIVE forwardElimination(_, _, _)
forwardElimination(A, n, i) ==
  IF i > n THEN A
  ELSE LET maxRow == findMaxRow(A, n, i, i + 1, i)
       IN  forwardElimination(eliminateBelow(swapRows(A, n, i, maxRow), n, i), n, i + 1)

\* Back-substitution from row i upward; x holds the unknowns found so far.
RECURSIVE backSubstitute(_, _, _, _)
backSubstitute(A, n, i, x) ==
  IF i < 1 THEN x
  ELSE IF AbsLtPow10(A[i][i], PivotEpsExp) THEN NULL
  ELSE LET xi == Div(A[i][n + 1], A[i][i])
           B == [k \in 1..n |->
                   IF k < i THEN [A[k] EXCEPT ![n + 1] = Sub(@, Mul(A[k][i], xi))]
                   ELSE A[k]]
       IN  backSubstitute(B, n, i - 1, [x EXCEPT ![i] = xi])

solveLinearSystem(matrix, vector) ==
  LET n == Len(vector)
      A == [k \in 1..n |-> [j \in 1..(n + 1) |-> IF j <= n THEN matrix[k][j] ELSE vector[k]]]
  IN  backSubstitute(forwardElimination(A, n, 1), n, n, [k \in 1..n |-> Zero])

\* The value of a sample's field; velocity samples carry x, y and error as null.
field(d, key) == d[key]

\* validSample without the isFinite tests.
validSampleNotNull(d, px, py) ==
  field(d, px) # NULL /\ field(d, py) # NULL

validSample(d, px, py) ==
  field(d, px) # NULL /\ field(d, py) # NULL /\ isFinite(field(d, px)) /\ isFinite(field(d, py))

\* result.fn: the fitted polynomial at x.
fitFn(result, x) ==
  IF result.type = "Linear"
  THEN Add(Mul(result.params.m, x), result.params.b)
  ELSE Add(Add(Mul(Mul(result.params.A, x), x), Mul(result.params.B, x)), result.params.C)

\* The linear result with the intercept taken as the mean of y.
linearParamsMeanIntercept(slope, sumX, sumY, n) ==
  [type |-> "Linear", params |-> [m |-> slope, b |-> Div(sumY, n)]]

\* The linear result of the sums, NULL when the denominator is within 1e-9 of 0.
linearParams(slope, sumX, sumY, n) ==
  [type |-> "Linear", params |-> [m |-> slope, b |-> Div(Sub(sumY, Mul(slope, sumX)), n)]]

\* linearResult dividing by any denominator.
linearResultUnguarded(n, sumX, sumY, sumXY, denominator) ==
  linearParams(Div(Sub(Mul(n, sumXY), Mul(sumX, sumY)), denominator), sumX, sumY, n)

linearResult(n, sumX, sumY, sumXY, denominator) ==
  IF AbsGtPow10(denominator, LinearEpsExp)
  THEN linearParams(Div(Sub(Mul(n, sumXY), Mul(sumX, sumY)), denominator), sumX, sumY, n)
  ELSE NULL

linearOfSums(n, sumX, sumY, sumXY, sumXX) ==
  linearResult(n, sumX, sumY, sumXY, Sub(Mul(n, sumXX), Mul(sumX, sumX)))

linearFit(xData, yData) ==
  linearOfSums(Num(Len(xData)), Sum(xData), Sum(yData),
               Sum([k \in 1..Len(xData) |-> Mul(xData[k], yData[k])]),
               Sum([k \in 1..Len(xData) |-> Mul(xData[k], xData[k])]))

quadraticResult(res) ==
  IF res # NULL
  THEN [type |-> "Quadratic", params |-> [A |-> res[1], B |-> res[2], C |-> res[3]]]
  ELSE NULL

\* The quadratic result of the sums: the normal equations, solved.
quadraticOfSums(n, sx, sx2, sx3, sx4, sy, sxy, sx2y) ==
  quadraticResult(solveLinearSystem(<< <<sx4, sx3, sx2>>, <<sx3, sx2, sx>>, <<sx2, sx, n>> >>,
                                    <<sx2y, sxy, sy>>))

quadraticFit(xData, yData) ==
  quadraticOfSums(Num(Len(xData)),
                  Sum(xData),
                  Sum([k \in 1..Len(xData) |-> Mul(xData[k], xData[k])]),
                  Sum([k \in 1..Len(xData) |-> Mul(Mul(xData[k], xData[k]), xData[k])]),
                  Sum([k \in 1..Len(xData) |->
                         Mul(Mul(xData[k], xData[k]), Mul(xData[k], xData[k]))]),
                  Sum(yData),
                  Sum([k \in 1..Len(xData) |-> Mul(xData[k], yData[k])]),
                  Sum([k \in 1..Len(xData) |-> Mul(Mul(xData[k], xData[k]), yData[k])]))

\* r2 set to 1 when every y equals the mean.
rSquaredOrOne(result, xData, yData) ==
  LET yMean == Div(Sum(yData), Num(Len(yData)))
  IN  IF \A k \in 1..Len(yData) : yData[k] = yMean THEN One
      ELSE Sub(One, Div(Sum([k \in 1..Len(yData) |->
                               Mul(Sub(yData[k], fitFn(result, xData[k])),
                                   Sub(yData[k], fitFn(result, xData[k])))]),
                        Sum([k \in 1..Len(yData) |->
                               Mul(Sub(yData[k], yMean), Sub(yData[k], yMean))])))

\* r2 = 1 - ssRes/ssTot of a fit over the valid samples.
rSquared(result, xData, yData) ==
  LET n == Num(Len(yData))
      yMean == Div(Sum(yData), n)
      sq(v) == Mul(v, v)
      ssTot == Sum([k \in 1..Len(yData) |-> sq(Sub(yData[k], yMean))])
      ssRes == Sum([k \in 1..Len(yData) |-> sq(Sub(yData[k], fitFn(result, xData[k])))])
  IN  Sub(One, Div(ssRes, ssTot))

\* The result with its r2, NULL when there is no result.
withR2(result, xData, yData) ==
  IF result # NULL
  THEN [type |-> result.type, params |-> result.params, r2 |-> rSquared(result, xData, yData)]
  ELSE NULL

\* The fit of the valid samples' columns; the quadratic model asks for more
\* than quadMin samples.
fitOfColumns(model, xData, yData, quadMin) ==
  withR2(IF model = "linear" THEN linearFit(xData, yData)
         ELSE IF model = "quadratic" /\ Len(xData) > quadMin THEN quadraticFit(xData, yData)
         ELSE NULL,
         xData, yData)

fitOfValid(model, validData, px, py, quadMin) ==
  IF Len(validData) < 2 THEN NULL
  ELSE fitOfColumns(model,
                    [k \in 1..Len(validData) |-> field(validData[k], px)],
                    [k \in 1..Len(validData) |-> field(validData[k], py)],
                    quadMin)

\* fitEquation asking for more than 3 samples before it fits a quadratic.
fitEquationOfFourPlus(model, activeData, px, py) ==
  IF model = "none" \/ Len(activeData) < 2 THEN NULL
  ELSE fitOfValid(model, SelectSeq(activeData, LAMBDA d : validSample(d, px, py)), px, py, 3)

fitEquationOf(model, activeData, px, py) ==
  IF model = "none" \/ Len(activeData) < 2 THEN NULL
  ELSE fitOfValid(model, SelectSeq(activeData, LAMBDA d : validSample(d, px, py)), px, py, 2)

activeDataOf(py, posData, velData) ==
  IF py \in {"vx", "vy"} THEN velData ELSE posData

(***************************************************************************)
(* The state after construction (the useState initial values).             *)
(***************************************************************************)
InitialDistanceInput == <<"1", ".", "0">>
NoAlert == ""
NoDims == [w |-> Zero, h |-> Zero]
NoObjects == [A |-> <<>>, B |-> <<>>]

InitUi ==
  /\ isCalibrating = FALSE
  /\ showInputModal = FALSE
  /\ realDistanceInput = InitialDistanceInput
  /\ isScaleVisible = TRUE
  /\ isTracking = FALSE
  /\ isSettingOrigin = FALSE
  /\ videoSrc = FALSE
  /\ videoDims = NoDims
  /\ hasRestoredData = FALSE
  /\ lastAlert = NoAlert

\* No drag in progress, no reticle yet.
NoDrag == "null"
InitPointer ==
  /\ dragState = NoDrag
  /\ draggedPointIndex = 0
  /\ isHoveringTrash = FALSE
  /\ reticlePos = NULL
  /\ dragStart = Pt(Zero, Zero)
  /\ dragOffset = Pt(Zero, Zero)

\* The player at rest on the first frame.
InitPlayer ==
  /\ currentTime = Zero
  /\ currentFrameIndex = 0
  /\ isPlaying = FALSE
  /\ language = "en"
  /\ fps = 30

InitDerived ==
  /\ positionData = <<>>
  /\ velocityData = <<>>
  /\ fitEquation = NULL
  /\ niceArgs = NULL
  /\ niceScale = NULL

InitAnalysis ==
  /\ fitModel = "none"
  /\ plotX = "time"
  /\ plotY = "x"

(***************************************************************************)
(* SpecKin: the derived series of a stored track.  Init draws the track of *)
(* the active object and the calibration state from bounded sets (a track  *)
(* as a project file or a recording session can leave it, before the       *)
(* series are derived); RenderData is the useMemo.                         *)
(***************************************************************************)
MaxPoints == 3

KinTimes == {Zero, Rat(1, 20000), Rat(1, 2), One, Rat(3, 2)}
\* The pixel positions of a track are those of one of a few paths, in the order
\* the points were recorded; the timestamps are arbitrary.
KinPaths == {"ramp", "skip", "flat", "zigzag", "down"}
PathPixel(path, i) ==
  CASE path = "ramp"   -> Pt(Num(10 * (i - 1)), Num(5 * ((i - 1) % 2)))
    [] path = "skip"   -> Pt(Num(5 * (i - 1) * i), Num(5 * (i - 1)))
    [] path = "flat"   -> Pt(Num(10), Num(5))
    [] path = "zigzag" -> Pt(Num(20 * (i % 2)), Num(0))
    [] path = "down"   -> Pt(Num(30 - 10 * (i - 1)), Num(5 * (i % 2)))
KinPixels == {PathPixel(path, i) : path \in KinPaths, i \in 1..MaxPoints}
KinOrigin == Pt(Num(10), Num(5))
\* [pixelsPerMeter, origin, zeroTime]
KinCalibrations ==
  { <<NULL, NULL, TRUE>>, <<Num(10), NULL, TRUE>>, <<Num(10), NULL, FALSE>>,
    <<Zero, NULL, TRUE>>, <<Num(10), KinOrigin, FALSE>>, <<NULL, KinOrigin, TRUE>> }

TrackedPoint(i, px, t) == [id |-> i, x |-> px.x, y |-> px.y, time |-> t]

KinTracks ==
  UNION { { [i \in 1..len |-> TrackedPoint(i, PathPixel(path, i), ts[i])] :
              path \in KinPaths, ts \in [1..len -> KinTimes] } : len \in 0..MaxPoints }

points == objects[activeObjId]

InitKin ==
  /\ \E trk \in KinTracks : objects = [A |-> trk, B |-> <<>>]
  /\ activeObjId = "A"
  /\ \E c \in KinCalibrations :
       /\ pixelsPerMeter = c[1]
       /\ origin = c[2]
       /\ zeroTime = c[3]
  /\ originAngle = Angle0
  /\ uncertaintyPx = Num(10)
  /\ calibrationPoints = <<>>
  /\ InitUi
  /\ InitPointer
  /\ InitPlayer
  /\ InitAnalysis
  /\ InitDerived

\* The render after the state was set: the useMemo sorts the active track in
\* place and derives both series.
applySeries(r) ==
  /\ positionData' = r.positionData
  /\ velocityData' = r.velocityData

RenderData ==
  /\ positionData = <<>>
  /\ points # <<>>
  /\ objects' = [objects EXCEPT ![activeObjId] = sortByTime(points)]
  /\ applySeries(computeData(points, origin, originAngle, pixelsPerMeter, zeroTime,
                             uncertaintyPx))
  /\ UNCHANGED <<activeObjId, frameVars, calibVars, modeVars, videoVars, lastAlert,
                 graphVars, scaleVars, pointerVars, playerVars, prefVars>>

NextKin == RenderData

SpecKin == InitKin /\ [][NextKin]_vars


(***************************************************************************)
(* SpecFit: the fit of a rendered track.  Init draws a stored track, sorted *)
(* by time as the render leaves it, with no calibration, and its derived   *)
(* series; the actions are the fit-model and y-axis selects of the graph   *)
(* view, each followed by the fitEquation useMemo.                         *)
(***************************************************************************)
MaxSamples == 3

FitTimes == {Num(0), Num(1), Num(2)}
FitXs == {Num(0), Num(1), Num(2), Num(4)}
FitModels == {"none", "linear", "quadratic"}
FitPlotYs == {"x", "vx"}

FitTracks ==
  UNION { { [i \in 1..len |-> TrackedPoint(i, Pt(xs[i], Zero), ts[i])] :
              xs \in [1..len -> FitXs],
              ts \in { t \in [1..len -> FitTimes] :
                         \A i \in 1..(len - 1) : Le(t[i], t[i + 1]) } } :
          len \in 0..MaxSamples }

InitFit ==
  /\ \E trk \in FitTracks :
       /\ objects = [A |-> trk, B |-> <<>>]
       /\ LET r == computeData(trk, NULL, Angle0, NULL, TRUE, Num(10))
          IN  positionData = r.positionData /\ velocityData = r.velocityData
  /\ activeObjId = "A"
  /\ pixelsPerMeter = NULL
  /\ origin = NULL
  /\ originAngle = Angle0
  /\ zeroTime = TRUE
  /\ uncertaintyPx = Num(10)
  /\ calibrationPoints = <<>>
  /\ InitUi
  /\ InitPointer
  /\ InitPlayer
  /\ InitAnalysis
  /\ fitEquation = NULL
  /\ niceArgs = NULL
  /\ niceScale = NULL

\* The fit-model select (onChange: setFitModel) and the render that follows.
setFitModel(m) ==
  /\ m # fitModel
  /\ fitModel' = m
  /\ fitEquation' = fitEquationOf(m, activeDataOf(plotY, positionData, velocityData), plotX, plotY)
  /\ UNCHANGED <<trackVars, frameVars, calibVars, modeVars, videoVars, lastAlert,
                 seriesVars, plotX, plotY, scaleVars, pointerVars, playerVars, prefVars>>

\* The y-axis select (onChange: setPlotY) and the render that follows.
setPlotY(k) ==
  /\ k # plotY
  /\ plotY' = k
  /\ fitEquation' = fitEquationOf(fitModel, activeDataOf(k, positionData, velocityData), plotX, k)
  /\ UNCHANGED <<trackVars, frameVars, calibVars, modeVars, videoVars, lastAlert,
                 seriesVars, fitModel, plotX, scaleVars, pointerVars, playerVars, prefVars>>

NextFit ==
  \/ \E m \in FitModels : setFitModel(m)
  \/ \E k \in FitPlotYs : setPlotY(k)

SpecFit == InitFit /\ [][NextFit]_vars

\* The samples the fit uses: those of the active series whose plotted fields are
\* both non-null and finite.
fitSamples ==
  SelectSeq(activeDataOf(plotY, positionData, velocityData),
            LAMBDA d : validSample(d, plotX, plotY))
fx(k) == field(fitSamples[k], plotX)
fy(k) == field(fitSamples[k], plotY)

DistinctX == \A j, k \in 1..Len(fitSamples) : j # k => fx(j) # fx(k)
lineSlope == Div(Sub(fy(2), fy(1)), Sub(fx(2), fx(1)))
lineIntercept == Sub(fy(1), Mul(lineSlope, fx(1)))
Collinear ==
  \A k \in 1..Len(fitSamples) : fy(k) = Add(Mul(lineSlope, fx(k)), lineIntercept)
ConstantY == \A k \in 1..Len(fitSamples) : fy(k) = fy(1)

ThreeCollinear ==
  fitModel = "quadratic" /\ Len(fitSamples) = 3 /\ DistinctX /\ Collinear

Pow10Num(m) == IF m >= 0 THEN Num(Pow10(m)) ELSE Rat(1, Pow10(-m))

\* Math.floor(Math.log10(v)) for a finite v > 0: the m with 10^m <= v < 10^(m+1).
RECURSIVE floorLog10From(_, _)
floorLog10From(v, m) ==
  IF Lt(v, Pow10Num(m)) THEN floorLog10From(v, m - 1)
  ELSE IF Ge(v, Pow10Num(m + 1)) THEN floorLog10From(v, m + 1)
  ELSE m
floorLog10(v) == floorLog10From(v, 0)

\* Math.floor and Math.ceil of a finite number.
MathFloor(v) == Num(v.n \div v.d)

\* Rounding down where Math.ceil rounds up.
MathCeilDown(v) == Num(v.n \div v.d)

MathCeil(v) == Num(-((-v.n) \div v.d))

\* The tick loop stopping one step short of the limit.
RECURSIVE tickLoopShort(_, _, _)
tickLoopShort(t, limit, niceStep) ==
  IF Le(Add(t, niceStep), limit)
  THEN <<toFixed(t, 4)>> \o tickLoopShort(Add(t, niceStep), limit, niceStep)
  ELSE <<>>

\* The tick loop: t from niceMin by niceStep while t <= limit.
RECURSIVE tickLoop(_, _, _)
tickLoop(t, limit, niceStep) ==
  IF Le(t, limit) THEN <<toFixed(t, 4)>> \o tickLoop(Add(t, niceStep), limit, niceStep)
  ELSE <<>>

\* The padded minimum always 5% below the minimum, whatever lockZero.
paddedMinUnlocked(minValue, padding, lockZero) == Sub(minValue, padding)

\* The padded minimum: 0 for a locked axis of non-negative data.
paddedMinOf(minValue, padding, lockZero) ==
  IF lockZero /\ Ge(minValue, Zero) THEN Zero ELSE Sub(minValue, padding)

DefaultScale == [min |-> Zero, max |-> Num(10), ticks |-> <<Zero, Num(10)>>, step |-> One]

calculateNiceScale(minValue, maxValue, lockZero) ==
  IF ~isFinite(minValue) \/ ~isFinite(maxValue) \/ minValue = maxValue
  THEN DefaultScale
  ELSE
    LET range == Sub(maxValue, minValue)
        padding == IF range = Zero THEN One ELSE Mul(range, Rat(5, 100))
        paddedMin == paddedMinOf(minValue, padding, lockZero)
        paddedMax == Add(maxValue, padding)
        paddedRange == Sub(paddedMax, paddedMin)
        targetTickCount == Num(6)
        rawStep == Div(paddedRange, targetTickCount)
    IN  IF rawStep = Zero
        \* log10(0) is -Infinity: magPow 0, magStep NaN (snapped to 10), a step of 0
        THEN [min |-> NaN, max |-> NaN, ticks |-> <<>>, step |-> Zero]
        ELSE IF Lt(rawStep, Zero)
        \* log10 of a negative number is NaN, and so is everything after it
        THEN [min |-> NaN, max |-> NaN, ticks |-> <<>>, step |-> NaN]
        ELSE
          LET mag == floorLog10(rawStep)
              magPow == Pow10Num(mag)
              rawMagStep == Div(rawStep, magPow)
              magStep == IF Lt(rawMagStep, Rat(3, 2)) THEN Num(1)
                         ELSE IF Lt(rawMagStep, Rat(9, 4)) THEN Num(2)
                         ELSE IF Lt(rawMagStep, Rat(7, 2)) THEN Rat(5, 2)
                         ELSE IF Lt(rawMagStep, Rat(15, 2)) THEN Num(5)
                         ELSE Num(10)
              niceStep == Mul(magStep, magPow)
              niceMin == Mul(MathFloor(Div(paddedMin, niceStep)), niceStep)
              niceMax == Mul(MathCeil(Div(paddedMax, niceStep)), niceStep)
          IN  [min   |-> niceMin,
               max   |-> niceMax,
               ticks |-> tickLoop(niceMin, Add(niceMax, Div(niceStep, Num(100))), niceStep),
               step  |-> niceStep]

(***************************************************************************)
(* SpecScale: calculateNiceScale as a function.  Init draws the arguments  *)
(* from a bounded set; callNiceScale applies the function to them.         *)
(***************************************************************************)
ScaleValues ==
  {NegInf, NaN, PosInf, Num(-5), Num(-1), Rat(-1, 2), Zero, Rat(1, 1000), Rat(1, 500),
   Rat(1, 4), Num(3), Num(10), Num(120)}

InitScale ==
  /\ \E lo \in ScaleValues, hi \in ScaleValues, lock \in BOOLEAN :
       niceArgs = [minValue |-> lo, maxValue |-> hi, lockZero |-> lock]
  /\ niceScale = NULL
  /\ objects = NoObjects
  /\ activeObjId = "A"
  /\ pixelsPerMeter = NULL
  /\ origin = NULL
  /\ originAngle = Angle0
  /\ zeroTime = TRUE
  /\ uncertaintyPx = Num(10)
  /\ calibrationPoints = <<>>
  /\ InitUi
  /\ InitPointer
  /\ InitPlayer
  /\ InitAnalysis
  /\ positionData = <<>>
  /\ velocityData = <<>>
  /\ fitEquation = NULL

callNiceScale ==
  /\ niceScale = NULL
  /\ niceScale' = calculateNiceScale(niceArgs.minValue, niceArgs.maxValue, niceArgs.lockZero)
  /\ UNCHANGED <<trackVars, frameVars, calibVars, modeVars, videoVars, lastAlert,
                 seriesVars, graphVars, niceArgs, pointerVars, playerVars, prefVars>>

NextScale == callNiceScale

SpecScale == InitScale /\ [][NextScale]_vars

\* C4: called with a non-finite bound or with minValue equal to maxValue,
\* calculateNiceScale returns the default scale min 0, max 10, step 10 and
\* ticks [0, 10].
DegenerateArgs ==
  \/ niceArgs.minValue.d = 0
  \/ niceArgs.maxValue.d = 0
  \/ niceArgs.minValue = niceArgs.maxValue

C4_DefaultScale ==
  (niceScale # NULL /\ DegenerateArgs) =>
    niceScale = [min |-> Zero, max |-> Num(10), ticks |-> <<Zero, Num(10)>>, step |-> Num(10)]

(***************************************************************************)
(* Properties of the derived series (checked under SpecKin).               *)
(***************************************************************************)
\* The series on display were derived from the stored track.
Rendered == Len(positionData) = Len(points)

\* The calibrated x coordinate and the timestamp of the k-th stored point.
cx(k) == calibratedPoint(points[k], origin, originAngle, pixelsPerMeter).x
tm(k) == points[k].time
gap(k) == Sub(tm(k + 1), tm(k))

\* Every gap between consecutive timestamps exceeds 1e-4.
GapsAboveDtMin == \A k \in 1..(Len(points) - 1) : Gt(gap(k), DtMin)
EquallySpaced == \A k \in 1..(Len(points) - 1) : gap(k) = gap(1)

\* The slope of the line through the first two points, and whether every point
\* lies on that line.
slopeA == Div(Sub(cx(2), cx(1)), gap(1))
LinearInTime ==
  \A k \in 1..Len(points) : Sub(cx(k), cx(1)) = Mul(slopeA, Sub(tm(k), tm(1)))

LinearTrack == Rendered /\ Len(points) >= 3 /\ GapsAboveDtMin /\ LinearInTime

\* C1 as stated: on a track linear in time, sampled at arbitrary increasing
\* times with gaps above 1e-4, vx equals the slope a at every sample (here even
\* allowing the three-decimal rounding of the output).
C1_Original ==
  LinearTrack =>
    /\ Len(velocityData) = Len(points)
    /\ \A k \in 1..Len(velocityData) : velocityData[k].vx = toFixed(slopeA, 3)

\* C1 amended: vx equals a (rounded to three decimals) at every interior sample,
\* at the first sample when the first two gaps are equal and at the last sample
\* when the last two gaps are equal; with unequal gaps the first sample reads
\* a*(3*h1 - h2)/(2*h1) and the last a*(3*hL - hP)/(2*hL), h1, h2 the first two
\* gaps and hP, hL the last two.
C1_Amended ==
  LinearTrack =>
    LET n == Len(points)
        edge(hNear, hFar) ==
          toFixed(Div(Mul(slopeA, Sub(Mul(Num(3), hNear), hFar)), Mul(Num(2), hNear)), 3)
    IN  /\ Len(velocityData) = n
        /\ \A k \in 2..(n - 1) : velocityData[k].vx = toFixed(slopeA, 3)
        /\ velocityData[1].vx = edge(gap(1), gap(2))
        /\ velocityData[n].vx = edge(gap(n - 1), gap(n - 2))
        /\ (gap(1) = gap(2)) => velocityData[1].vx = toFixed(slopeA, 3)
        /\ (gap(n - 1) = gap(n - 2)) => velocityData[n].vx = toFixed(slopeA, 3)

\* A linear track with unequal gaps and a non-zero slope has been rendered, and
\* its interior sample reads the slope.
C1_Witness ==
  /\ LinearTrack
  /\ gap(1) # gap(2)
  /\ slopeA # Zero
  /\ velocityData[2].vx = toFixed(slopeA, 3)
  /\ velocityData[1].vx # toFixed(slopeA, 3)

\* C3 as stated: with an origin o, angle 0 and pixelsPerMeter k > 0 the
\* calibrated point of p is ((p.x - o.x)/k, (p.y - o.y)/k).
CalibratedWithOrigin ==
  origin # NULL /\ originAngle = Angle0 /\ pixelsPerMeter # NULL /\ Gt(pixelsPerMeter, Zero)

C3_Original ==
  CalibratedWithOrigin =>
    \A p \in KinPixels :
      calibratedPoint(p, origin, originAngle, pixelsPerMeter)
        = Pt(Div(Sub(p.x, origin.x), pixelsPerMeter), Div(Sub(p.y, origin.y), pixelsPerMeter))

\* C3 amended: the calibrated point is ((p.x - o.x)/k, -(p.y - o.y)/k): the x
\* component is (p - o)/k and the y component is its negation (physical Y
\* points up).
C3_Amended ==
  CalibratedWithOrigin =>
    \A p \in KinPixels :
      calibratedPoint(p, origin, originAngle, pixelsPerMeter)
        = Pt(Div(Sub(p.x, origin.x), pixelsPerMeter),
             Neg(Div(Sub(p.y, origin.y), pixelsPerMeter)))

\* A track was rendered with an origin, angle 0 and a positive scale, and a point
\* below the origin got a negative y.
C3_Witness ==
  /\ CalibratedWithOrigin
  /\ Rendered
  /\ \E k \in 1..Len(points) :
       /\ Gt(points[k].y, origin.y) \/ Gt(points[k].x, origin.x)
       /\ positionData[k].x = toFixed(Div(Sub(points[k].x, origin.x), pixelsPerMeter), 3)
       /\ positionData[k].y = toFixed(Neg(Div(Sub(points[k].y, origin.y), pixelsPerMeter)), 3)

\* The window of the k-th sorted point's derivative (k counted from 1): the
\* first gap at the first point, the last gap at the last point, the span of
\* both neighbours in between.
windowDt(k) ==
  IF k = 1 THEN gap(1)
  ELSE IF k = Len(points) THEN gap(Len(points) - 1)
  ELSE Sub(tm(k + 1), tm(k - 1))

shownTime(k) ==
  toFixed(IF zeroTime THEN Sub(tm(k), startTimeOf(points)) ELSE tm(k), 3)

\* C5: a track of at least 3 points whose consecutive sorted timestamps differ
\* by more than 1e-4 has one velocity sample per position sample, in the same
\* order, each carrying the timestamp of its own position sample.
C5_OneVelocityPerSample ==
  (Rendered /\ Len(points) >= 3 /\ GapsAboveDtMin) =>
    /\ Len(velocityData) = Len(positionData)
    /\ \A k \in 1..Len(velocityData) :
         /\ velocityData[k].time = positionData[k].time
         /\ velocityData[k].time = shownTime(k)

\* Such a track was rendered with the zero-time policy on and a first timestamp
\* other than 0, and with the policy off.
C5_Witness ==
  /\ Rendered /\ Len(points) >= 3 /\ GapsAboveDtMin
  /\ zeroTime /\ tm(1) # Zero
  /\ Len(velocityData) = 3
  /\ velocityData[1].time = Zero
  /\ velocityData[2].time = Sub(tm(2), tm(1))

\* C6: a track with fewer than 3 points has no velocity sample, while
\* positionData holds one sample per point.
C6_NoVelocityBelowThree ==
  /\ Len(points) < 3 => velocityData = <<>>
  /\ (Rendered /\ Len(points) < 3) => Len(positionData) = Len(points)

\* A track of two points with distinct timestamps was rendered.
C6_Witness ==
  /\ Len(points) = 2 /\ Len(positionData) = 2
  /\ Gt(gap(1), DtMin)
  /\ velocityData = <<>>

\* The indices whose derivative window exceeds 1e-4, in order.
RECURSIVE emittedFrom(_)
emittedFrom(k) ==
  IF k > Len(points) THEN <<>>
  ELSE (IF Gt(windowDt(k), DtMin) THEN <<k>> ELSE <<>>) \o emittedFrom(k + 1)

\* C7: every emitted velocity sample is finite, and the samples emitted are
\* exactly those whose derivative window exceeds 1e-4: a sample with a window
\* of dt <= 1e-4 is left out.
C7_FiniteVelocities ==
  Rendered =>
    /\ \A k \in 1..Len(velocityData) :
         /\ velocityData[k].vx # NULL /\ velocityData[k].vx.d # 0
         /\ velocityData[k].vy # NULL /\ velocityData[k].vy.d # 0
    /\ Len(points) >= 3 =>
         LET em == emittedFrom(1)
         IN  /\ Len(velocityData) = Len(em)
             /\ \A j \in 1..Len(em) : velocityData[j].time = shownTime(em[j])

\* A track with a duplicate timestamp and one with a near-duplicate timestamp
\* were rendered: the samples on the degenerate windows are missing.
C7_Witness ==
  /\ Rendered /\ Len(points) = 3
  /\ gap(1) = Rat(1, 20000)
  /\ Gt(gap(2), DtMin)
  /\ Len(velocityData) = 2
  /\ velocityData[1].time = shownTime(2)

\* C8: with equally spaced timestamps and positions linear in time the three
\* formulas agree (every vx is the slope); the track (0, t=0), (10, t=0.5),
\* (20, t=1.0) with pixelsPerMeter = 10 and no origin gives x = [0, 1, 2] and
\* vx = [2, 2, 2].
EndToEndTrack ==
  /\ Rendered /\ Len(points) = 3
  /\ pixelsPerMeter = Num(10) /\ origin = NULL
  /\ points[1].x = Num(0) /\ tm(1) = Zero
  /\ points[2].x = Num(10) /\ tm(2) = Rat(1, 2)
  /\ points[3].x = Num(20) /\ tm(3) = One

C8_FormulasAgree ==
  /\ (LinearTrack /\ EquallySpaced) =>
       \A k \in 1..Len(velocityData) : velocityData[k].vx = toFixed(slopeA, 3)
  /\ EndToEndTrack =>
       /\ [k \in 1..3 |-> positionData[k].x] = <<Num(0), Num(1), Num(2)>>
       /\ [k \in 1..Len(velocityData) |-> velocityData[k].vx] = <<Num(2), Num(2), Num(2)>>

C8_Witness ==
  /\ EndToEndTrack
  /\ Len(velocityData) = 3
  /\ velocityData[1].vx = Num(2)

\* C10: with no origin, the calibrated point of p is p itself when
\* pixelsPerMeter is null or zero and p/k in both components when
\* pixelsPerMeter = k is non-zero.
C10_NoOrigin ==
  origin = NULL =>
    \A p \in KinPixels :
      calibratedPoint(p, origin, originAngle, pixelsPerMeter)
        = IF pixelsPerMeter = NULL \/ pixelsPerMeter = Zero
          THEN p
          ELSE Pt(Div(p.x, pixelsPerMeter), Div(p.y, pixelsPerMeter))

\* A track was rendered with no origin and a scale of zero: the positions are
\* the pixel coordinates.
C10_Witness ==
  /\ origin = NULL /\ pixelsPerMeter = Zero
  /\ Rendered /\ Len(points) >= 1
  /\ \E k \in 1..Len(points) :
       /\ points[k].x # Zero
       /\ positionData[k].x = points[k].x
       /\ positionData[k].y = points[k].y

(***************************************************************************)
(* Spec: the tracker view.  The header buttons, the calibration workflow,  *)
(* the video and project files.  Each action is one event handler together *)
(* with the render that follows it (the derived series and the fit).  The  *)
(* pointer handlers are not part of Next: calibration points stay where    *)
(* handleScaleButtonClick or a project file put them.                      *)
(***************************************************************************)
Digits == {"0", "1", "2", "3", "4", "5", "6", "7", "8", "9"}
digitValue(c) ==
  CASE c = "0" -> 0 [] c = "1" -> 1 [] c = "2" -> 2 [] c = "3" -> 3 [] c = "4" -> 4
    [] c = "5" -> 5 [] c = "6" -> 6 [] c = "7" -> 7 [] c = "8" -> 8 [] c = "9" -> 9

\* The run of decimal digits of s starting at index i: its value, its length
\* and the index after it.
RECURSIVE digitRun(_, _, _, _)
digitRun(s, i, acc, cnt) ==
  IF i <= Len(s) /\ s[i] \in Digits
  THEN digitRun(s, i + 1, 10 * acc + digitValue(s[i]), cnt + 1)
  ELSE [val |-> acc, count |-> cnt, next |-> i]

\* parseFloat of a text: an optional sign, digits, an optional fraction; what
\* follows the longest such prefix is ignored, and NaN when the prefix has no
\* digit.  (Exponents and leading blanks are not modelled.)
parseFloat(s) ==
  LET signed == Len(s) >= 1 /\ s[1] \in {"-", "+"}
      sign == IF signed /\ s[1] = "-" THEN -1 ELSE 1
      whole == digitRun(s, IF signed THEN 2 ELSE 1, 0, 0)
      dotted == whole.next <= Len(s) /\ s[whole.next] = "."
      frac == IF dotted THEN digitRun(s, whole.next + 1, 0, 0)
              ELSE [val |-> 0, count |-> 0, next |-> whole.next]
  IN  IF whole.count + frac.count = 0 THEN NaN
      ELSE Rat(sign * (whole.val * Pow10(frac.count) + frac.val), Pow10(frac.count))

\* The integer square root of n, by bisection of lo..hi (lo * lo <= n < hi * hi).
RECURSIVE isqrtBetween(_, _, _)
isqrtBetween(n, lo, hi) ==
  IF hi - lo <= 1 THEN lo
  ELSE LET mid == (lo + hi) \div 2
       IN  IF mid * mid <= n THEN isqrtBetween(n, mid, hi) ELSE isqrtBetween(n, lo, mid)
isqrt(n) == isqrtBetween(n, 0, 46341)

\* Math.sqrt: exact on the square of a rational, else rounded down to three
\* decimals; NaN below zero.
MathSqrt(v) ==
  IF isNaN(v) \/ Lt(v, Zero) THEN NaN
  ELSE IF v.d = 0 THEN v
  ELSE IF isqrt(v.n) * isqrt(v.n) = v.n /\ isqrt(v.d) * isqrt(v.d) = v.d
       THEN Rat(isqrt(v.n), isqrt(v.d))
       ELSE Rat(isqrt((v.n * 1000000) \div v.d), 1000)

distPxOf(p1, p2) ==
  MathSqrt(Add(Mul(Sub(p2.x, p1.x), Sub(p2.x, p1.x)), Mul(Sub(p2.y, p1.y), Sub(p2.y, p1.y))))

validDistanceOrZero(meters) == ~isNaN(meters) /\ Ge(meters, Zero)
\* The test of submitCalibration on the parsed distance.
validDistance(meters) == ~isNaN(meters) /\ Gt(meters, Zero)

InvalidNumberAlert == "Please enter a valid number"
ProjectLoadedAlert == "Project loaded successfully. Please upload the corresponding video file."
InvalidProjectAlert == "Invalid Project File"

\* points.sort of the useMemo: the array held by the active object is sorted
\* in place.
sortedInPlace(objs, act) == [objs EXCEPT ![act] = sortByTime(objs[act])]

\* The render that follows a handler, from the state the handler has set: the
\* useMemo derives the series of the (sorted) active track, and the fit is
\* derived from them.
Render ==
  /\ applySeries(computeData(objects'[activeObjId'], origin', originAngle', pixelsPerMeter',
                             zeroTime', uncertaintyPx'))
  /\ fitEquation' = fitEquationOf(fitModel', activeDataOf(plotY', positionData', velocityData'),
                                  plotX', plotY')

Init ==
  /\ objects = NoObjects
  /\ activeObjId = "A"
  /\ pixelsPerMeter = NULL
  /\ origin = NULL
  /\ originAngle = Angle0
  /\ zeroTime = TRUE
  /\ uncertaintyPx = Num(10)
  /\ calibrationPoints = <<>>
  /\ InitUi
  /\ InitPointer
  /\ InitPlayer
  /\ InitAnalysis
  /\ InitDerived

\* The effect that places the reticle at the centre of the video when tracking
\* starts: the reticle position after the effect.
reticleInit(tracking, dims, pos) ==
  IF tracking /\ ~(pos # NULL) /\ Gt(dims.w, Zero)
  THEN Pt(Div(dims.w, Num(2)), Div(dims.h, Num(2)))
  ELSE pos

\* The tracking button leaving the other two modes as they are.
toggleTrackingKeepsModes ==
  /\ isTracking' = ~isTracking
  /\ UNCHANGED <<isSettingOrigin, isCalibrating>>
  /\ reticlePos' = reticleInit(~isTracking, videoDims, reticlePos)
  /\ lastAlert' = NoAlert
  /\ UNCHANGED <<trackVars, frameVars, calibrationPoints, showInputModal, realDistanceInput,
                 isScaleVisible, videoVars, seriesVars, graphVars, scaleVars,
                 dragState, draggedPointIndex, isHoveringTrash, dragStart, dragOffset,
                 playerVars, prefVars>>

\* The tracking button of the header.
toggleTracking ==
  /\ isTracking' = ~isTracking
  /\ isSettingOrigin' = FALSE
  /\ isCalibrating' = FALSE
  /\ reticlePos' = reticleInit(~isTracking, videoDims, reticlePos)
  /\ lastAlert' = NoAlert
  /\ UNCHANGED <<trackVars, frameVars, calibrationPoints, showInputModal, realDistanceInput,
                 isScaleVisible, videoVars, seriesVars, graphVars, scaleVars,
                 dragState, draggedPointIndex, isHoveringTrash, dragStart, dragOffset,
                 playerVars, prefVars>>

\* The origin button of the header.
originButtonClick ==
  /\ origin' = IF ~(origin # NULL) /\ Gt(videoDims.w, Zero)
               THEN Pt(Div(videoDims.w, Num(2)), Div(videoDims.h, Num(2)))
               ELSE origin
  /\ isSettingOrigin' = TRUE
  /\ isCalibrating' = FALSE
  /\ isTracking' = FALSE
  /\ showInputModal' = FALSE
  /\ lastAlert' = NoAlert
  /\ UNCHANGED <<trackVars, pixelsPerMeter, originAngle, zeroTime, uncertaintyPx,
                 calibrationPoints, realDistanceInput, isScaleVisible, videoVars,
                 fitModel, plotX, plotY, scaleVars, pointerVars, playerVars, prefVars>>
  /\ Render

\* The scale button of the header.
handleScaleButtonClick ==
  /\ lastAlert' = NoAlert
  /\ IF Truthy(pixelsPerMeter)
     THEN /\ isScaleVisible' = ~isScaleVisible
          /\ UNCHANGED <<calibrationPoints, isCalibrating, showInputModal, modeVars,
                         reticlePos>>
     ELSE IF ~isCalibrating
     THEN LET w == IF Truthy(videoDims.w) THEN videoDims.w ELSE Num(600)
              h == IF Truthy(videoDims.h) THEN videoDims.h ELSE Num(400)
          IN  /\ isCalibrating' = TRUE
              /\ isSettingOrigin' = FALSE
              /\ isScaleVisible' = TRUE
              /\ isTracking' = FALSE
              /\ reticlePos' = NULL
              /\ calibrationPoints' = << Pt(Mul(w, Rat(4, 10)), Mul(h, Rat(5, 10))),
                                         Pt(Mul(w, Rat(6, 10)), Mul(h, Rat(5, 10))) >>
              /\ UNCHANGED showInputModal
     ELSE /\ showInputModal' = TRUE
          /\ UNCHANGED <<calibrationPoints, isCalibrating, isScaleVisible, modeVars,
                         reticlePos>>
  /\ UNCHANGED <<trackVars, frameVars, realDistanceInput, videoVars, seriesVars,
                 graphVars, scaleVars, dragState, draggedPointIndex, isHoveringTrash,
                 dragStart, dragOffset, playerVars, prefVars>>

\* The "enter distance" button shown over the video while calibrating.
enterDistanceClick ==
  /\ isCalibrating /\ ~showInputModal
  /\ showInputModal' = TRUE
  /\ lastAlert' = NoAlert
  /\ UNCHANGED <<trackVars, frameVars, calibrationPoints, isCalibrating, realDistanceInput,
                 isScaleVisible, modeVars, videoVars, seriesVars, graphVars, scaleVars, pointerVars, playerVars, prefVars>>

\* The distance input of the modal (onChange).
setRealDistanceInput(text) ==
  /\ showInputModal
  /\ text # realDistanceInput
  /\ realDistanceInput' = text
  /\ lastAlert' = NoAlert
  /\ UNCHANGED <<trackVars, frameVars, calibrationPoints, isCalibrating, showInputModal,
                 isScaleVisible, modeVars, videoVars, seriesVars, graphVars, scaleVars, pointerVars, playerVars, prefVars>>

\* The save button of the modal.  A valid distance with fewer than two
\* calibration points reads a coordinate of undefined: the handler throws
\* before its first setter and no alert is raised.
submitCalibration ==
  LET meters == parseFloat(realDistanceInput)
  IN  /\ showInputModal
      /\ IF validDistance(meters)
         THEN IF Len(calibrationPoints) >= 2
              THEN LET distPx == distPxOf(calibrationPoints[1], calibrationPoints[2])
                   IN  /\ pixelsPerMeter' = Div(distPx, meters)
                       /\ isCalibrating' = FALSE
                       /\ showInputModal' = FALSE
                       /\ isScaleVisible' = TRUE
                       /\ lastAlert' = NoAlert
              ELSE /\ lastAlert' = NoAlert
                   /\ UNCHANGED <<pixelsPerMeter, isCalibrating, showInputModal, isScaleVisible>>
         ELSE /\ lastAlert' = InvalidNumberAlert
              /\ UNCHANGED <<pixelsPerMeter, isCalibrating, showInputModal, isScaleVisible>>
      /\ UNCHANGED <<trackVars, origin, originAngle, zeroTime, uncertaintyPx,
                     calibrationPoints, realDistanceInput, modeVars, videoVars,
                     fitModel, plotX, plotY, scaleVars, pointerVars, playerVars, prefVars>>
      /\ Render

\* The cancel button of the modal.
cancelCalibration ==
  /\ showInputModal
  /\ calibrationPoints' = <<>>
  /\ isCalibrating' = FALSE
  /\ showInputModal' = FALSE
  /\ lastAlert' = NoAlert
  /\ UNCHANGED <<trackVars, frameVars, realDistanceInput, isScaleVisible, modeVars,
                 videoVars, seriesVars, graphVars, scaleVars, pointerVars, playerVars, prefVars>>

\* The reset button next to the scale readout, shown while a scale is set.
resetScale ==
  /\ Truthy(pixelsPerMeter)
  /\ pixelsPerMeter' = NULL
  /\ calibrationPoints' = <<>>
  /\ isCalibrating' = FALSE
  /\ isScaleVisible' = TRUE
  /\ lastAlert' = NoAlert
  /\ UNCHANGED <<trackVars, origin, originAngle, zeroTime, uncertaintyPx,
                 showInputModal, realDistanceInput, modeVars, videoVars,
                 fitModel, plotX, plotY, scaleVars, pointerVars, playerVars, prefVars>>
  /\ Render

\* The zero-time button of the sidebar.
toggleZeroTime ==
  /\ zeroTime' = ~zeroTime
  /\ lastAlert' = NoAlert
  /\ UNCHANGED <<trackVars, pixelsPerMeter, origin, originAngle, uncertaintyPx,
                 calibVars, modeVars, videoVars, fitModel, plotX, plotY, scaleVars, pointerVars, playerVars, prefVars>>
  /\ Render

\* The video file input, with a file chosen.
handleFileUpload ==
  /\ videoSrc' = TRUE
  /\ IF ~hasRestoredData
     THEN /\ calibrationPoints' = <<>>
          /\ pixelsPerMeter' = NULL
          /\ origin' = NULL
          /\ originAngle' = Angle0
          /\ fitModel' = "none"
          /\ videoDims' = NoDims
          /\ objects' = NoObjects
          /\ UNCHANGED hasRestoredData
     ELSE /\ hasRestoredData' = FALSE
          /\ UNCHANGED <<objects, calibrationPoints, pixelsPerMeter, origin, originAngle,
                         fitModel, videoDims>>
  /\ showInputModal' = FALSE
  /\ isScaleVisible' = TRUE
  /\ zeroTime' = TRUE
  /\ isTracking' = FALSE
  /\ uncertaintyPx' = Num(10)
  /\ isPlaying' = FALSE
  /\ dragState' = NoDrag
  /\ reticlePos' = NULL
  /\ currentTime' = Zero
  /\ currentFrameIndex' = 0
  /\ lastAlert' = NoAlert
  /\ UNCHANGED <<activeObjId, isCalibrating, realDistanceInput, isSettingOrigin,
                 plotX, plotY, scaleVars, draggedPointIndex, isHoveringTrash,
                 dragStart, dragOffset, prefVars>>
  /\ Render

VideoSizes == { [w |-> Num(1000), h |-> Num(500)], NoDims }

\* The loadedmetadata event of the attached video.
handleVideoLoaded(size) ==
  /\ videoSrc
  /\ videoDims' = IF Gt(size.w, Zero) /\ Gt(size.h, Zero) THEN size ELSE videoDims
  /\ reticlePos' = reticleInit(isTracking, videoDims', reticlePos)
  /\ lastAlert' = NoAlert
  /\ UNCHANGED <<trackVars, frameVars, calibVars, modeVars, videoSrc, hasRestoredData,
                 seriesVars, graphVars, scaleVars, dragState, draggedPointIndex,
                 isHoveringTrash, dragStart, dragOffset, playerVars, prefVars>>

\* The contents of a project file: InvalidFile for a text that is not JSON,
\* else the parsed object, with the names of the fields it lacks in "absent"
\* (the value given here for an absent field is never read).
InvalidFile == [invalid |-> TRUE]
SavedTrack ==
  << TrackedPoint(1, Pt(Num(0), Num(0)), Zero),
     TrackedPoint(2, Pt(Num(10), Num(5)), Rat(1, 2)),
     TrackedPoint(3, Pt(Num(20), Num(10)), One) >>
SavedProject ==
  [ invalid |-> FALSE,
    absent |-> {"points", "origin", "originAngle", "fitModel", "uncertaintyPx", "language",
                "fps"},
    objects |-> [A |-> SavedTrack, B |-> <<>>], activeObjId |-> "A", points |-> <<>>,
    calibrationPoints |-> << Pt(Num(100), Num(100)), Pt(Num(400), Num(500)) >>,
    pixelsPerMeter |-> Num(50), origin |-> NULL, originAngle |-> Angle0,
    zeroTime |-> FALSE, fitModel |-> "none", uncertaintyPx |-> Zero, language |-> "en",
    fps |-> 30 ]
EmptyProject ==
  [ SavedProject EXCEPT
      !.absent = {"objects", "activeObjId", "points", "calibrationPoints", "pixelsPerMeter",
                  "origin", "originAngle", "zeroTime", "fitModel", "uncertaintyPx",
                  "language", "fps"} ]
ProjectFiles == {InvalidFile, SavedProject, EmptyProject}

\* data[f] || default, for a field whose values are all truthy when present.
orElse(data, f, default) == IF f \in data.absent THEN default ELSE data[f]
\* data[f] || default, for a numeric field.
numberOrElse(data, f, default) ==
  IF f \notin data.absent /\ Truthy(data[f]) THEN data[f] ELSE default

\* The state the onload callback sets from a parsed project file.
restoredProject(data) ==
  [ objects |-> IF "objects" \notin data.absent THEN data.objects
                ELSE [A |-> orElse(data, "points", <<>>), B |-> <<>>],
    activeObjId |-> IF "objects" \notin data.absent THEN orElse(data, "activeObjId", "A")
                    ELSE "A",
    calibrationPoints |-> orElse(data, "calibrationPoints", <<>>),
    pixelsPerMeter |-> numberOrElse(data, "pixelsPerMeter", NULL),
    origin |-> orElse(data, "origin", NULL),
    originAngle |-> orElse(data, "originAngle", Angle0),
    zeroTime |-> orElse(data, "zeroTime", TRUE),
    fitModel |-> orElse(data, "fitModel", "none"),
    uncertaintyPx |-> numberOrElse(data, "uncertaintyPx", Num(10)),
    language |-> orElse(data, "language", language),
    fps |-> IF "fps" \notin data.absent /\ data.fps # 0 THEN data.fps ELSE fps ]

\* The setters of the callback, and the render that follows (which sorts the
\* active track in place).
applyProject(r) ==
  /\ objects' = sortedInPlace(r.objects, r.activeObjId)
  /\ activeObjId' = r.activeObjId
  /\ calibrationPoints' = r.calibrationPoints
  /\ pixelsPerMeter' = r.pixelsPerMeter
  /\ origin' = r.origin
  /\ originAngle' = r.originAngle
  /\ zeroTime' = r.zeroTime
  /\ fitModel' = r.fitModel
  /\ uncertaintyPx' = r.uncertaintyPx
  /\ language' = r.language
  /\ fps' = r.fps

\* The project file input: the onload callback of the reader.
loadProject(data) ==
  IF data.invalid
  THEN /\ lastAlert' = InvalidProjectAlert
       /\ UNCHANGED <<trackVars, frameVars, calibVars, modeVars, videoVars, seriesVars,
                      graphVars, scaleVars, pointerVars, playerVars, prefVars>>
  ELSE /\ applyProject(restoredProject(data))
       /\ hasRestoredData' = TRUE
       /\ videoSrc' = FALSE
       /\ lastAlert' = ProjectLoadedAlert
       /\ UNCHANGED <<isCalibrating, showInputModal, realDistanceInput, isScaleVisible,
                      modeVars, videoDims, plotX, plotY, scaleVars, pointerVars, playerVars>>
       /\ Render

DistanceInputs ==
  { <<>>, <<"0">>, <<"-", "2">>, <<"2">>, <<"0", ".", "5">>, InitialDistanceInput }

Next ==
  \/ toggleTracking
  \/ originButtonClick
  \/ handleScaleButtonClick
  \/ enterDistanceClick
  \/ \E text \in DistanceInputs : setRealDistanceInput(text)
  \/ submitCalibration
  \/ cancelCalibration
  \/ resetScale
  \/ toggleZeroTime
  \/ handleFileUpload
  \/ \E size \in VideoSizes : handleVideoLoaded(size)
  \/ \E data \in ProjectFiles : loadProject(data)

Spec == Init /\ [][Next]_vars

(***************************************************************************)
(* Pointer handlers of the video canvas (mouse pointer, zoom 1, so that     *)
(* client and canvas coordinates differ by a fixed offset that cancels) and *)
(* the player controls.                                                     *)
(***************************************************************************)
duration == Rat(1, 20)
frameDuration == Div(One, Num(fps))

\* The time of the centre of frame i.
targetTimeOf(i) == Add(Mul(Num(i), frameDuration), Div(frameDuration, Num(2)))

\* floor(t * fps + 0.001), the frame a time falls in.
frameIndexOf(t) == MathFloor(Add(Mul(t, Num(fps)), Rat(1, 1000))).n

hitRadius == 15
reticleHitRadius == 60
handleDist == 100
tapRadius == 10

sq(v) == Mul(v, v)
dist2(x, y, p) == Add(sq(Sub(x, p.x)), sq(Sub(y, p.y)))

\* The test passing at the distance r too.
withinOrOn(x, y, p, r) == Le(dist2(x, y, p), Num(r * r))

\* Math.sqrt(...) < r on the distance from (x, y) to p.
within(x, y, p, r) == Lt(dist2(x, y, p), Num(r * r))

maxOf(S) == IF S = {} THEN 0 ELSE CHOOSE i \in S : \A j \in S : j <= i
minOf(S) == IF S = {} THEN 0 ELSE CHOOSE i \in S : \A j \in S : i <= j

\* The index the scan from the last point down stops at, 0 when no point is hit.
lastHit(x, y, pts, r) == maxOf({ i \in 1..Len(pts) : within(x, y, pts[i], r) })

\* The index the scan from the first point up stops at, 0 when no point is hit.
firstHit(x, y, pts, r) == minOf({ i \in 1..Len(pts) : within(x, y, pts[i], r) })

\* The handle of the axes, handleDist along the x axis from the origin.
handleOf(org, ang) ==
  Pt(Add(org.x, Mul(Num(handleDist), MathCos(ang))),
     Add(org.y, Mul(Num(handleDist), MathSin(ang))))

\* Math.atan2(dy, dx) as the angle of the direction (dx, dy); atan2(0, 0) = 0.
MathAtan2(dy, dx) ==
  IF dx = Zero /\ dy = Zero THEN Angle0
  ELSE [cos |-> Div(dx, MathSqrt(Add(sq(dx), sq(dy)))),
        sin |-> Div(dy, MathSqrt(Add(sq(dx), sq(dy))))]

\* What a pointer going down at (x, y) grabs, in the order of the handler: the
\* reticle, a point of the active track, a calibration point, the origin, the
\* handle of the axes, or nothing.
pointerTarget(x, y) ==
  IF ~isCalibrating /\ isTracking /\ reticlePos # NULL
       /\ within(x, y, reticlePos, reticleHitRadius)
  THEN [state |-> "reticle", index |-> 0]
  ELSE IF lastHit(x, y, objects[activeObjId], hitRadius) # 0
  THEN [state |-> "point", index |-> lastHit(x, y, objects[activeObjId], hitRadius)]
  ELSE IF (isCalibrating \/ (isScaleVisible /\ Len(calibrationPoints) > 0))
            /\ firstHit(x, y, calibrationPoints, hitRadius + 5) # 0
  THEN [state |-> "calibration",
        index |-> firstHit(x, y, calibrationPoints, hitRadius + 5)]
  ELSE IF origin # NULL /\ within(x, y, origin, hitRadius)
  THEN [state |-> "origin", index |-> 0]
  ELSE IF origin # NULL /\ within(x, y, handleOf(origin, originAngle), hitRadius)
  THEN [state |-> "rotate", index |-> 0]
  ELSE [state |-> NoDrag, index |-> 0]

pointerDownOn(x, y, tgt) ==
  /\ IF tgt.state # NoDrag \/ isSettingOrigin
     THEN /\ IF isSettingOrigin /\ tgt.state = NoDrag
             THEN /\ origin' = Pt(x, y)
                  /\ originAngle' = Angle0
                  /\ dragState' = NoDrag
             ELSE /\ dragState' = tgt.state
                  /\ UNCHANGED <<origin, originAngle>>
          /\ isSettingOrigin' = FALSE
          /\ draggedPointIndex' = IF tgt.state \in {"point", "calibration"}
                                  THEN tgt.index ELSE draggedPointIndex
          /\ dragStart' = IF tgt.state = "reticle" THEN Pt(x, y) ELSE dragStart
          /\ dragOffset' = IF tgt.state = "reticle"
                           THEN Pt(Sub(reticlePos.x, x), Sub(reticlePos.y, y))
                           ELSE dragOffset
          /\ UNCHANGED reticlePos
     ELSE IF ~isCalibrating /\ isTracking /\ reticlePos # NULL
     THEN /\ dragState' = "reticle_move_jump"
          /\ reticlePos' = Pt(x, y)
          /\ dragStart' = Pt(x, y)
          /\ UNCHANGED <<origin, originAngle, isSettingOrigin, draggedPointIndex, dragOffset>>
     ELSE UNCHANGED <<origin, originAngle, isSettingOrigin, dragState, draggedPointIndex,
                      dragStart, dragOffset, reticlePos>>
  /\ lastAlert' = NoAlert
  /\ UNCHANGED <<trackVars, pixelsPerMeter, zeroTime, uncertaintyPx, calibVars, isTracking,
                 videoVars, fitModel, plotX, plotY, scaleVars, isHoveringTrash, playerVars, prefVars>>
  /\ Render

\* pointerdown on the canvas at (x, y).
handlePointerDown(x, y) ==
  /\ videoSrc /\ ~showInputModal
  /\ pointerDownOn(x, y, pointerTarget(x, y))

\* setPoints replacing the points of every object.
setPointsOfAll(objs, act, nextPoints) == [id \in DOMAIN objs |-> nextPoints]

\* The proxy setter: the points of the active object replaced, the other object
\* as it was.
setPoints(objs, act, nextPoints) == [objs EXCEPT ![act] = nextPoints]

\* pointermove on the canvas at (x, y) during a drag; overTrash tells whether
\* the pointer is inside the rectangle of the trash.
handlePointerMove(x, y, overTrash) ==
  /\ dragState # NoDrag
  /\ origin' = IF dragState = "origin" THEN Pt(x, y) ELSE origin
  /\ originAngle' = IF dragState = "rotate" /\ origin # NULL
                    THEN MathAtan2(Sub(y, origin.y), Sub(x, origin.x))
                    ELSE originAngle
  /\ objects' = IF dragState = "point" /\ draggedPointIndex # 0
                THEN sortedInPlace(setPoints(objects, activeObjId,
                                             [objects[activeObjId] EXCEPT
                                                ![draggedPointIndex].x = x,
                                                ![draggedPointIndex].y = y]),
                                   activeObjId)
                ELSE objects
  /\ isHoveringTrash' = IF dragState = "point" /\ draggedPointIndex # 0
                        THEN overTrash ELSE isHoveringTrash
  /\ calibrationPoints' = IF dragState = "calibration" /\ draggedPointIndex # 0
                          THEN [calibrationPoints EXCEPT ![draggedPointIndex] = Pt(x, y)]
                          ELSE calibrationPoints
  /\ reticlePos' = IF dragState = "reticle"
                   THEN Pt(Add(x, dragOffset.x), Add(y, dragOffset.y))
                   ELSE IF dragState = "reticle_move_jump" THEN Pt(x, y)
                   ELSE reticlePos
  /\ lastAlert' = NoAlert
  /\ UNCHANGED <<activeObjId, pixelsPerMeter, zeroTime, uncertaintyPx, isCalibrating,
                 showInputModal, realDistanceInput, isScaleVisible, modeVars, videoVars,
                 fitModel, plotX, plotY, scaleVars, dragState, draggedPointIndex,
                 dragStart, dragOffset, playerVars, prefVars>>
  /\ Render

\* stepForward: pause, and move to the centre of the next frame unless that
\* lies past the end of the video.
stepForwardPlayer ==
  /\ isPlaying' = FALSE
  /\ IF Le(targetTimeOf(currentFrameIndex + 1), duration)
     THEN /\ currentFrameIndex' = currentFrameIndex + 1
          /\ currentTime' = targetTimeOf(currentFrameIndex + 1)
     ELSE UNCHANGED <<currentFrameIndex, currentTime>>

\* The ids of the points of both tracks.
idsOf(objs) == UNION { { objs[o][i].id : i \in 1..Len(objs[o]) } : o \in DOMAIN objs }

\* The point a tap on the reticle records: the reticle position at the current
\* time of the video.  Its id is Date.now(), a number above the id of every
\* point recorded before.
recordedPoint(objs) ==
  [id |-> 1 + maxOf(idsOf(objs)), x |-> reticlePos.x, y |-> reticlePos.y, time |-> currentTime]

withoutIndex(pts, k) ==
  [i \in 1..(Len(pts) - 1) |-> IF i < k THEN pts[i] ELSE pts[i + 1]]

\* The taps the model follows: no point is recorded once a point of id
\* MaxTracked exists, so that the two tracks hold at most MaxTracked points
\* between them.
MaxTracked == 2

\* The setters of pointerup at (x, y): a reticle released within tapRadius of
\* where it was grabbed records a point and steps forward; a point released
\* over the trash is removed.
pointerUpOn(x, y) ==
  /\ dragState # NoDrag
  /\ IF dragState = "reticle" /\ within(x, y, dragStart, tapRadius)
     THEN /\ maxOf(idsOf(objects)) < MaxTracked
          /\ objects' = sortedInPlace(setPoints(objects, activeObjId,
                                                Append(objects[activeObjId],
                                                       recordedPoint(objects))),
                                      activeObjId)
          /\ stepForwardPlayer
          /\ UNCHANGED <<isHoveringTrash, draggedPointIndex>>
     ELSE IF dragState = "point"
     THEN /\ objects' = IF isHoveringTrash /\ draggedPointIndex \in 1..Len(objects[activeObjId])
                        THEN setPoints(objects, activeObjId,
                                       withoutIndex(objects[activeObjId], draggedPointIndex))
                        ELSE objects
          /\ isHoveringTrash' = FALSE
          /\ draggedPointIndex' = 0
          /\ UNCHANGED playerVars
     ELSE UNCHANGED <<objects, isHoveringTrash, draggedPointIndex, playerVars, prefVars>>
  /\ dragState' = NoDrag
  /\ lastAlert' = NoAlert
  /\ UNCHANGED <<activeObjId, frameVars, calibVars, modeVars, videoVars, fitModel, plotX,
                 plotY, scaleVars, reticlePos, dragStart, dragOffset, prefVars>>
  /\ Render

\* pointerup at (x, y).  A tap while there is no reticle (the scale button was
\* pressed during the drag) reads reticlePos.x of null: the handler throws
\* before its first setter.
handlePointerUp(x, y) ==
  IF dragState = "reticle" /\ within(x, y, dragStart, tapRadius) /\ reticlePos = NULL
  THEN UNCHANGED vars
  ELSE pointerUpOn(x, y)

(***************************************************************************)
(* SpecCal: a two-point track under a calibration whose axes the user       *)
(* rotates by dragging the handle of the axes.                              *)
(***************************************************************************)
CalVideo == [w |-> Num(1000), h |-> Num(500)]
CalPixels == { Pt(Num(20), Num(10)), Pt(Num(23), Num(14)), Pt(Num(70), Num(42)),
               Pt(Num(50), Num(25)) }
CalOrigins == { Pt(Num(50), Num(25)), Pt(Num(30), Num(60)) }
CalScales == { NULL, Num(50), Rat(5, 2) }

\* Where the pointer goes relative to the origin: directions whose angle has a
\* rational cosine and sine.
RotateOffsets ==
  { Pt(Num(100), Num(0)), Pt(Num(60), Num(80)), Pt(Num(0), Num(100)),
    Pt(Num(-80), Num(60)), Pt(Num(-60), Num(-80)) }

CalTracks ==
  { << TrackedPoint(1, p, Num(0)), TrackedPoint(2, q, Num(1)) >> :
      p \in CalPixels, q \in CalPixels }

InitCal ==
  /\ \E trk \in CalTracks, org \in CalOrigins, ppm \in CalScales :
       /\ objects = [A |-> trk, B |-> <<>>]
       /\ origin = org
       /\ pixelsPerMeter = ppm
       /\ LET r == computeData(trk, org, Angle0, ppm, TRUE, Num(10))
          IN  positionData = r.positionData /\ velocityData = r.velocityData
  /\ activeObjId = "A"
  /\ originAngle = Angle0
  /\ zeroTime = TRUE
  /\ uncertaintyPx = Num(10)
  /\ calibrationPoints = <<>>
  /\ isCalibrating = FALSE
  /\ showInputModal = FALSE
  /\ realDistanceInput = InitialDistanceInput
  /\ isScaleVisible = TRUE
  /\ isTracking = FALSE
  /\ isSettingOrigin = FALSE
  /\ videoSrc = TRUE
  /\ videoDims = CalVideo
  /\ hasRestoredData = FALSE
  /\ lastAlert = NoAlert
  /\ InitPointer
  /\ InitPlayer
  /\ InitAnalysis
  /\ fitEquation = NULL
  /\ niceArgs = NULL
  /\ niceScale = NULL

NextCal ==
  \/ \E off \in RotateOffsets :
       handlePointerDown(Add(origin.x, off.x), Add(origin.y, off.y))
  \/ \E off \in RotateOffsets :
       handlePointerMove(Add(origin.x, off.x), Add(origin.y, off.y), FALSE)
  \/ \E off \in RotateOffsets :
       handlePointerUp(Add(origin.x, off.x), Add(origin.y, off.y))

SpecCal == InitCal /\ [][NextCal]_vars

calDist2(p, q) ==
  dist2(calibratedPoint(p, origin, originAngle, pixelsPerMeter).x,
        calibratedPoint(p, origin, originAngle, pixelsPerMeter).y,
        calibratedPoint(q, origin, originAngle, pixelsPerMeter))

\* C11: whatever the rotation of the axes, the squared distance between the
\* calibrated points of two pixel points is their squared pixel distance divided
\* by pixelsPerMeter squared (the squared pixel distance itself while no scale is
\* set): neither the rotation nor the flip of the y axis changes a distance.
C11_RotationKeepsDistance ==
  \A i, j \in 1..Len(points) :
    calDist2(points[i], points[j]) =
      IF Truthy(pixelsPerMeter)
      THEN Div(dist2(points[i].x, points[i].y, points[j]), sq(pixelsPerMeter))
      ELSE dist2(points[i].x, points[i].y, points[j])

\* Two distinct points under a scale and axes rotated off the pixel axes.
C11_Witness ==
  /\ Len(points) = 2 /\ Rendered
  /\ dist2(points[1].x, points[1].y, points[2]) # Zero
  /\ Truthy(pixelsPerMeter)
  /\ origin # NULL
  /\ originAngle.cos \notin {Zero, One, Neg(One)}
  /\ calDist2(points[1], points[2]) =
       Div(dist2(points[1].x, points[1].y, points[2]), sq(pixelsPerMeter))

(***************************************************************************)
(* Properties of the calibration workflow (Spec).                          *)
(***************************************************************************)
\* The text of the distance input is not a number, or is a number that is
\* zero or negative.
distanceRejected ==
  LET m == parseFloat(realDistanceInput)
  IN  m = NaN \/ (m.d # 0 /\ m.n <= 0)

\* C9: submitCalibration with a distance input that is non-numeric, zero or
\* negative changes nothing: pixelsPerMeter keeps its prior value (or stays
\* null), isCalibrating, showInputModal and calibrationPoints are unchanged,
\* as is every other piece of state; only the validation message is raised.
C9_InvalidDistanceChangesNothing ==
  [][ (submitCalibration /\ distanceRejected) =>
        /\ lastAlert' = InvalidNumberAlert
        /\ UNCHANGED <<pixelsPerMeter, isCalibrating, showInputModal, calibrationPoints>>
        /\ UNCHANGED <<trackVars, frameVars, calibVars, modeVars, videoVars, seriesVars,
                       graphVars, scaleVars, pointerVars, playerVars, prefVars>> ]_vars

\* The validation message was just raised over an open modal, with a scale
\* and two calibration points already in place.
C9_Witness ==
  /\ lastAlert = InvalidNumberAlert
  /\ distanceRejected
  /\ showInputModal /\ isCalibrating
  /\ pixelsPerMeter # NULL
  /\ Len(calibrationPoints) = 2

(***************************************************************************)
(* Properties of the fit on exact data (SpecFit).                          *)
(***************************************************************************)
nFit == Len(fitSamples)

\* Two samples of distinct x, and the line through them.
pairOf == CHOOSE p \in (1..nFit) \X (1..nFit) : fx(p[1]) # fx(p[2])
slopeOf(p) == Div(Sub(fy(p[2]), fy(p[1])), Sub(fx(p[2]), fx(p[1])))
interceptOf(p, m) == Sub(fy(p[1]), Mul(m, fx(p[1])))
onLine(m, b) == \A k \in 1..nFit : fy(k) = Add(Mul(m, fx(k)), b)

\* At least 2 valid samples, of at least two distinct x, all on one line.
ExactLine ==
  /\ nFit >= 2
  /\ \E j, k \in 1..nFit : fx(j) # fx(k)
  /\ onLine(slopeOf(pairOf), interceptOf(pairOf, slopeOf(pairOf)))

\* Three samples of pairwise distinct x, and the parabola through them.
tripleOf ==
  CHOOSE t \in (1..nFit) \X (1..nFit) \X (1..nFit) :
    fx(t[1]) # fx(t[2]) /\ fx(t[1]) # fx(t[3]) /\ fx(t[2]) # fx(t[3])
quadAOf(t) ==
  Div(Sub(Div(Sub(fy(t[3]), fy(t[1])), Sub(fx(t[3]), fx(t[1]))),
          Div(Sub(fy(t[2]), fy(t[1])), Sub(fx(t[2]), fx(t[1])))),
      Sub(fx(t[3]), fx(t[2])))
quadBOf(t, a) ==
  Sub(Div(Sub(fy(t[2]), fy(t[1])), Sub(fx(t[2]), fx(t[1]))), Mul(a, Add(fx(t[1]), fx(t[2]))))
quadCOf(t, a, b) == Sub(Sub(fy(t[1]), Mul(a, sq(fx(t[1])))), Mul(b, fx(t[1])))
parabolaOf(t) ==
  [A |-> quadAOf(t), B |-> quadBOf(t, quadAOf(t)),
   C |-> quadCOf(t, quadAOf(t), quadBOf(t, quadAOf(t)))]
onParabola(q) ==
  \A k \in 1..nFit : fy(k) = Add(Add(Mul(q.A, sq(fx(k))), Mul(q.B, fx(k))), q.C)

\* More than 2 valid samples, of at least three distinct x, all on one parabola.
ExactParabola ==
  /\ nFit > 2
  /\ \E i, j, k \in 1..nFit : fx(i) # fx(j) /\ fx(i) # fx(k) /\ fx(j) # fx(k)
  /\ onParabola(parabolaOf(tripleOf))

linearRecovered(m, r2) ==
  /\ fitEquation # NULL
  /\ fitEquation.type = "Linear"
  /\ fitEquation.params = [m |-> m, b |-> interceptOf(pairOf, m)]
  /\ fitEquation.r2 = r2

quadraticRecovered(r2) ==
  /\ fitEquation # NULL
  /\ fitEquation.type = "Quadratic"
  /\ fitEquation.params = parabolaOf(tripleOf)
  /\ fitEquation.r2 = r2

\* C12 as stated: the linear model on samples exactly on a line returns the
\* line with r2 = 1, and the quadratic model on samples of non-constant y exactly
\* on a parabola returns the parabola with r2 = 1.
C12_Original ==
  /\ (fitModel = "linear" /\ ExactLine) => linearRecovered(slopeOf(pairOf), One)
  /\ (fitModel = "quadratic" /\ ExactParabola /\ ~ConstantY) => quadraticRecovered(One)

\* C12 amended: on samples exactly on a line (at least two distinct x, here at
\* least 1 apart) the linear model returns the slope and the intercept of the
\* line, and on samples exactly on a parabola (at least three distinct x) the
\* quadratic model returns its three coefficients; in both r2 = 1 when y is not
\* constant, and r2 is NaN when y is constant (a line of slope 0).
C12_Amended ==
  /\ (fitModel = "linear" /\ ExactLine) =>
       linearRecovered(slopeOf(pairOf), IF ConstantY THEN NaN ELSE One)
  /\ (fitModel = "quadratic" /\ ExactParabola) =>
       quadraticRecovered(IF ConstantY THEN NaN ELSE One)

\* The quadratic model has recovered a parabola that is not a line.
C12_Witness ==
  /\ fitModel = "quadratic" /\ ExactParabola
  /\ fitEquation # NULL
  /\ fitEquation.params.A = quadAOf(tripleOf)
  /\ fitEquation.params.A # Zero
  /\ fitEquation.r2 = One

(***************************************************************************)
(* SpecFilter: fitEquation on series whose samples may carry null or        *)
(* non-finite fields.                                                       *)
(***************************************************************************)
FilterTimes == {Num(0), Num(1), Num(2), NegInf}
FilterValues == {NULL, NaN, Num(1), Num(3)}
FilterSeries ==
  UNION { [1..len -> { [time |-> t, x |-> v, y |-> Zero, error |-> Zero] :
                         t \in FilterTimes, v \in FilterValues }] :
          len \in 0..MaxSamples }

InitFilter ==
  /\ positionData \in FilterSeries
  /\ velocityData = <<>>
  /\ objects = NoObjects
  /\ activeObjId = "A"
  /\ pixelsPerMeter = NULL
  /\ origin = NULL
  /\ originAngle = Angle0
  /\ zeroTime = TRUE
  /\ uncertaintyPx = Num(10)
  /\ calibrationPoints = <<>>
  /\ InitUi
  /\ InitPointer
  /\ InitPlayer
  /\ InitAnalysis
  /\ fitEquation = NULL
  /\ niceArgs = NULL
  /\ niceScale = NULL

SpecFilter == InitFilter /\ [][NextFit]_vars

\* A sample both of whose plotted fields are numbers other than NaN and the
\* infinities.
usable(d) ==
  /\ d[plotX] # NULL /\ d[plotY] # NULL
  /\ d[plotX].d # 0 /\ d[plotY].d # 0
usableSamples == SelectSeq(activeDataOf(plotY, positionData, velocityData), usable)
columnOf(samples, key) == [k \in 1..Len(samples) |-> samples[k][key]]

\* C13: the fit is the fit of the samples whose plotted x and y are both non-null
\* and finite, and there is none (null) under the model 'none', under the linear
\* model with fewer than 2 such samples, and under the quadratic model with 2 or
\* fewer.
C13_OnlyValidSamples ==
  /\ fitModel = "none" => fitEquation = NULL
  /\ (fitModel = "linear" /\ Len(usableSamples) < 2) => fitEquation = NULL
  /\ (fitModel = "quadratic" /\ Len(usableSamples) <= 2) => fitEquation = NULL
  /\ (fitModel # "none" /\ Len(usableSamples) >= 2) =>
       fitEquation = fitOfColumns(fitModel, columnOf(usableSamples, plotX),
                                  columnOf(usableSamples, plotY), 2)

\* A line was fitted to a series from which a null or non-finite sample was
\* left out.
C13_Witness ==
  /\ fitModel = "linear"
  /\ Len(usableSamples) >= 2
  /\ Len(usableSamples) < Len(activeDataOf(plotY, positionData, velocityData))
  /\ fitEquation # NULL
  /\ fitEquation.params.m # Zero

distinctXs == { fx(k) : k \in 1..nFit }
finiteParams(result) ==
  IF result.type = "Linear"
  THEN isFinite(result.params.m) /\ isFinite(result.params.b)
  ELSE isFinite(result.params.A) /\ isFinite(result.params.B) /\ isFinite(result.params.C)

\* C14: degenerate x gives no fit: the linear model returns null when every
\* valid sample has the same x, the quadratic model returns null when the valid
\* samples have fewer than three distinct x, and a fit that is returned has finite
\* coefficients.
C14_DegenerateXNoFit ==
  /\ (fitModel = "linear" /\ Cardinality(distinctXs) <= 1) => fitEquation = NULL
  /\ (fitModel = "quadratic" /\ Cardinality(distinctXs) < 3) => fitEquation = NULL
  /\ fitEquation # NULL => finiteParams(fitEquation)

\* The quadratic model met three samples of two distinct x and returned null.
C14_Witness ==
  /\ fitModel = "quadratic"
  /\ nFit = 3
  /\ Cardinality(distinctXs) = 2
  /\ fitEquation = NULL

\* C15: when every valid sample has the same y (SS_tot = 0) and there is a fit,
\* the fit is returned with r2 = NaN; r2 is 1 - SS_res/SS_tot as computed, never
\* replaced by a number of [0, 1].
C15_ConstantYGivesNaN ==
  (fitEquation # NULL /\ ConstantY) =>
    /\ isNaN(fitEquation.r2)
    /\ finiteParams(fitEquation)

\* The quadratic model fitted three samples of equal y.
C15_Witness ==
  /\ fitModel = "quadratic"
  /\ nFit = 3
  /\ ConstantY
  /\ fitEquation # NULL
  /\ fitEquation.params.C = fy(1)
  /\ isNaN(fitEquation.r2)

(***************************************************************************)
(* Properties of calculateNiceScale on finite minValue < maxValue           *)
(* (SpecScale).                                                             *)
(***************************************************************************)
FiniteRange ==
  /\ niceScale # NULL
  /\ isFinite(niceArgs.minValue) /\ isFinite(niceArgs.maxValue)
  /\ Lt(niceArgs.minValue, niceArgs.maxValue)

\* v is an integer multiple of step.
multipleOf(v, step) == Div(v, step).d = 1

\* C16: for finite minValue < maxValue and either lockZero, scale.min is at most
\* minValue, scale.max is at least maxValue, and both are integer multiples of
\* scale.step.
C16_ScaleContainsRange ==
  FiniteRange =>
    /\ Le(niceScale.min, niceArgs.minValue)
    /\ Ge(niceScale.max, niceArgs.maxValue)
    /\ Gt(niceScale.step, Zero)
    /\ multipleOf(niceScale.min, niceScale.step)
    /\ multipleOf(niceScale.max, niceScale.step)

\* A range of negative and positive data below a scale that is strictly wider.
C16_Witness ==
  /\ FiniteRange
  /\ Lt(niceArgs.minValue, Zero) /\ Gt(niceArgs.maxValue, Zero)
  /\ Lt(niceScale.min, niceArgs.minValue)
  /\ Gt(niceScale.max, niceArgs.maxValue)
  /\ multipleOf(niceScale.max, niceScale.step)

nTicks == Len(niceScale.ticks)
ticksByStep ==
  \A i \in 1..(nTicks - 1) :
    Sub(niceScale.ticks[i + 1], niceScale.ticks[i]) = niceScale.step

\* C17 as stated: the ticks start at scale.min, end at scale.max, differ by
\* exactly scale.step, and are between 2 and 9.
C17_Original ==
  FiniteRange =>
    /\ nTicks >= 2 /\ nTicks <= 9
    /\ niceScale.ticks[1] = niceScale.min
    /\ niceScale.ticks[nTicks] = niceScale.max
    /\ ticksByStep

\* C17 amended: there are between 2 and 11 ticks, one for each multiple of
\* scale.step from scale.min to scale.max, each rounded to 4 decimals; when
\* scale.step is a multiple of 0.0001 the rounding changes nothing, so the ticks
\* start at scale.min, end at scale.max and differ by exactly scale.step.
C17_Amended ==
  FiniteRange =>
    /\ nTicks >= 2 /\ nTicks <= 11
    /\ Add(niceScale.min, Mul(Num(nTicks - 1), niceScale.step)) = niceScale.max
    /\ \A i \in 1..nTicks :
         niceScale.ticks[i] = toFixed(Add(niceScale.min, Mul(Num(i - 1), niceScale.step)), 4)
    /\ multipleOf(niceScale.step, Rat(1, 10000)) =>
         /\ niceScale.ticks[1] = niceScale.min
         /\ niceScale.ticks[nTicks] = niceScale.max
         /\ ticksByStep

\* A scale of 11 ticks, from scale.min to scale.max by scale.step.
C17_Witness ==
  /\ FiniteRange
  /\ nTicks = 11
  /\ niceScale.ticks[1] = niceScale.min
  /\ niceScale.ticks[11] = niceScale.max
  /\ ticksByStep

\* C18: with lockZero set and 0 <= minValue < maxValue, scale.min and the first
\* tick are exactly 0; otherwise scale.min is the multiple of scale.step at or
\* next below minValue less 5% of the range.
C18_LockZero ==
  FiniteRange =>
    IF niceArgs.lockZero /\ Ge(niceArgs.minValue, Zero)
    THEN niceScale.min = Zero /\ niceScale.ticks[1] = Zero
    ELSE /\ multipleOf(niceScale.min, niceScale.step)
         /\ Le(niceScale.min,
               Sub(niceArgs.minValue,
                   Mul(Sub(niceArgs.maxValue, niceArgs.minValue), Rat(5, 100))))
         /\ Gt(Add(niceScale.min, niceScale.step),
               Sub(niceArgs.minValue,
                   Mul(Sub(niceArgs.maxValue, niceArgs.minValue), Rat(5, 100))))

\* A locked axis over data that starts above 0, where the unlocked scale would
\* start above 0 too.
C18_Witness ==
  /\ FiniteRange
  /\ niceArgs.lockZero
  /\ niceArgs.minValue = Num(3) /\ niceArgs.maxValue = Num(10)
  /\ niceScale.min = Zero
  /\ niceScale.ticks[1] = Zero

(***************************************************************************)
(* SpecTrack and SpecPlayer: tracking two objects on a loaded video.  The    *)
(* state after construction is the one the app is in once a video is        *)
(* attached, its metadata loaded and the tracking button pressed.  SpecTrack *)
(* follows the operations on the points, SpecPlayer the taps on the reticle  *)
(* together with the player controls.                                       *)
(***************************************************************************)
\* The object buttons of the header, and the render that follows (which sorts
\* the track that is now active).
setActiveObjId(id) ==
  /\ activeObjId' = id
  /\ objects' = sortedInPlace(objects, id)
  /\ lastAlert' = NoAlert
  /\ UNCHANGED <<frameVars, calibVars, modeVars, videoVars, fitModel, plotX, plotY,
                 scaleVars, pointerVars, playerVars, prefVars>>
  /\ Render

\* The undo button, enabled while the active track has points.
undoLastPoint ==
  /\ Len(objects[activeObjId]) > 0
  /\ objects' = setPoints(objects, activeObjId,
                          SubSeq(objects[activeObjId], 1, Len(objects[activeObjId]) - 1))
  /\ lastAlert' = NoAlert
  /\ UNCHANGED <<activeObjId, frameVars, calibVars, modeVars, videoVars, fitModel, plotX,
                 plotY, scaleVars, pointerVars, playerVars, prefVars>>
  /\ Render

\* The clear-data button, rendered while the active track has points.
clearData ==
  /\ Len(objects[activeObjId]) > 0
  /\ objects' = setPoints(objects, activeObjId, <<>>)
  /\ lastAlert' = NoAlert
  /\ UNCHANGED <<activeObjId, frameVars, calibVars, modeVars, videoVars, fitModel, plotX,
                 plotY, scaleVars, pointerVars, playerVars, prefVars>>
  /\ Render

\* The next-frame button.
stepForward ==
  /\ videoSrc
  /\ stepForwardPlayer
  /\ lastAlert' = NoAlert
  /\ UNCHANGED <<trackVars, frameVars, calibVars, modeVars, videoVars, seriesVars,
                 graphVars, scaleVars, pointerVars, prefVars>>

\* The previous-frame button.
stepBackward ==
  /\ videoSrc
  /\ isPlaying' = FALSE
  /\ currentFrameIndex' = IF currentFrameIndex - 1 > 0 THEN currentFrameIndex - 1 ELSE 0
  /\ currentTime' = targetTimeOf(currentFrameIndex')
  /\ lastAlert' = NoAlert
  /\ UNCHANGED <<trackVars, frameVars, calibVars, modeVars, videoVars, seriesVars,
                 graphVars, scaleVars, pointerVars, prefVars>>

\* The play/pause button; play() may be refused.
togglePlay ==
  /\ videoSrc
  /\ isPlaying' \in (IF isPlaying THEN {FALSE} ELSE {TRUE, FALSE})
  /\ lastAlert' = NoAlert
  /\ UNCHANGED <<trackVars, frameVars, calibVars, modeVars, videoVars, seriesVars,
                 graphVars, scaleVars, pointerVars, currentTime, currentFrameIndex, prefVars>>

\* The seek slider moved to the position whose value reads text.
handleSeek(text) ==
  /\ videoSrc
  /\ currentTime' = parseFloat(text)
  /\ currentFrameIndex' = frameIndexOf(parseFloat(text))
  /\ lastAlert' = NoAlert
  /\ UNCHANGED <<trackVars, frameVars, calibVars, modeVars, videoVars, seriesVars,
                 graphVars, scaleVars, pointerVars, isPlaying, prefVars>>

\* The timeupdate event, the video being at time t: playback has moved it
\* forward, or it is where the last step or seek put it.
handleTimeUpdate(t) ==
  /\ videoSrc
  /\ IF isPlaying THEN Ge(t, currentTime) ELSE t = currentTime
  /\ currentTime' = t
  /\ currentFrameIndex' = IF isPlaying THEN frameIndexOf(t) ELSE currentFrameIndex
  /\ lastAlert' = NoAlert
  /\ UNCHANGED <<trackVars, frameVars, calibVars, modeVars, videoVars, seriesVars,
                 graphVars, scaleVars, pointerVars, isPlaying, prefVars>>

\* The ended event of the video.
handleVideoEnded ==
  /\ isPlaying /\ currentTime = duration
  /\ isPlaying' = FALSE
  /\ lastAlert' = NoAlert
  /\ UNCHANGED <<trackVars, frameVars, calibVars, modeVars, videoVars, seriesVars,
                 graphVars, scaleVars, pointerVars, currentTime, currentFrameIndex, prefVars>>

\* The frame rates the model follows, of the 30, 60, 120 and 240 of the select.
FpsOptions == {30, 60}

\* The frame-rate select of the sidebar (onChange).
setFps(v) ==
  /\ v # fps
  /\ fps' = v
  /\ lastAlert' = NoAlert
  /\ UNCHANGED <<trackVars, frameVars, calibVars, modeVars, videoVars, seriesVars,
                 graphVars, scaleVars, pointerVars, playerVars, language>>

TrackVideo == [w |-> Num(1000), h |-> Num(500)]
\* Where the pointer goes down, moves and goes up: the centre of the video
\* (where the reticle starts) and a place far from it.
TrackPointer == { Pt(Num(500), Num(250)), Pt(Num(100), Num(100)) }
SeekInputs == { <<"0">>, <<"0", ".", "0", "5">> }
PlayTimes == { duration }

InitTrack ==
  /\ objects = NoObjects
  /\ activeObjId = "A"
  /\ pixelsPerMeter = NULL
  /\ origin = NULL
  /\ originAngle = Angle0
  /\ zeroTime = TRUE
  /\ uncertaintyPx = Num(10)
  /\ calibrationPoints = <<>>
  /\ isCalibrating = FALSE
  /\ showInputModal = FALSE
  /\ realDistanceInput = InitialDistanceInput
  /\ isScaleVisible = TRUE
  /\ isTracking = TRUE
  /\ isSettingOrigin = FALSE
  /\ videoSrc = TRUE
  /\ videoDims = TrackVideo
  /\ hasRestoredData = FALSE
  /\ lastAlert = NoAlert
  /\ dragState = NoDrag
  /\ draggedPointIndex = 0
  /\ isHoveringTrash = FALSE
  /\ reticlePos = reticleInit(TRUE, TrackVideo, NULL)
  /\ dragStart = Pt(Zero, Zero)
  /\ dragOffset = Pt(Zero, Zero)
  /\ InitPlayer
  /\ InitAnalysis
  /\ InitDerived

NextTrack ==
  \/ \E id \in {"A", "B"} : setActiveObjId(id)
  \/ \E p \in TrackPointer : handlePointerDown(p.x, p.y)
  \/ \E p \in TrackPointer, overTrash \in BOOLEAN : handlePointerMove(p.x, p.y, overTrash)
  \/ \E p \in TrackPointer : handlePointerUp(p.x, p.y)
  \/ undoLastPoint
  \/ clearData

SpecTrack == InitTrack /\ [][NextTrack]_vars

\* Where the pointer is released, relative to where it went down: on the spot,
\* less than tapRadius away, exactly tapRadius away, and far away.
PlayerReleases == { Pt(Num(0), Num(0)), Pt(Num(5), Num(8)), Pt(Num(6), Num(8)),
                    Pt(Num(-400), Num(-150)) }

\* The pointer going down on the reticle where it stands and being released
\* near or far from there, the undo button and the controls of the player.
NextPlayer ==
  \/ \E id \in {"A", "B"} : setActiveObjId(id)
  \/ handlePointerDown(reticlePos.x, reticlePos.y)
  \/ \E off \in PlayerReleases :
       handlePointerUp(Add(dragStart.x, off.x), Add(dragStart.y, off.y))
  \/ undoLastPoint
  \/ stepForward
  \/ stepBackward
  \/ togglePlay
  \/ \E text \in SeekInputs : handleSeek(text)
  \/ \E t \in PlayTimes : handleTimeUpdate(t)
  \/ handleVideoEnded
  \/ \E v \in FpsOptions : setFps(v)

SpecPlayer == InitTrack /\ [][NextPlayer]_vars

otherObjId == IF activeObjId = "A" THEN "B" ELSE "A"

\* C19: a step that keeps the active object leaves the points of the other
\* object as they were, and a step that switches the active object leaves the
\* points of both objects as they were.
C19_TracksIndependent ==
  [][ /\ activeObjId' = activeObjId => objects'[otherObjId] = objects[otherObjId]
      /\ activeObjId' # activeObjId => objects' = objects ]_vars

\* Both objects hold a point, not the same one, and the second one is active.
C19_Witness ==
  /\ activeObjId = "B"
  /\ Len(objects["A"]) = 1
  /\ Len(objects["B"]) = 1
  /\ objects["A"] # objects["B"]
  /\ Rendered

\* C20: no two points of one track have the same timestamp.
C20_DistinctTimestamps ==
  \A id \in {"A", "B"} :
    \A i, j \in 1..Len(objects[id]) :
      i # j => objects[id][i].time # objects[id][j].time
(***************************************************************************)
(* Order and purity of the derived series (checked under SpecKin, whose    *)
(* tracks carry their timestamps in any order, as recording after a seek    *)
(* backwards leaves them).                                                  *)
(***************************************************************************)
\* C21: whatever the order in which the points were recorded, positionData is
\* ordered by non-decreasing time and, with the zero-time policy on, its first
\* sample has time 0.
C21_SortedFromZero ==
  Rendered =>
    /\ \A k \in 1..(Len(positionData) - 1) :
         Le(positionData[k].time, positionData[k + 1].time)
    /\ (zeroTime /\ Len(positionData) > 0) => positionData[1].time = Zero

\* A track of three points recorded out of time order (the point recorded first
\* is not the earliest) was rendered with the zero-time policy on, none of its
\* raw timestamps being 0.
C21_Witness ==
  /\ Rendered /\ Len(points) = 3
  /\ zeroTime
  /\ points[1].id # 1
  /\ tm(1) # Zero
  /\ Lt(tm(1), tm(3))
  /\ positionData[1].time = Zero
  /\ Lt(positionData[1].time, positionData[3].time)

\* C22: deriving the series leaves the stored point list of the track, its
\* stored order included, as it was.
C22_RenderLeavesTrack == [][objects' = objects]_vars
(***************************************************************************)
(* Properties of the taps and of the player controls (SpecPlayer).         *)
(***************************************************************************)
\* The release at the offset off from where the pointer went down on the
\* reticle.
releaseAt(off) ==
  dragState = "reticle" /\ handlePointerUp(Add(dragStart.x, off.x), Add(dragStart.y, off.y))

\* The track next is the track prev with one more point, at the pixel px and the
\* time t.
onePointMore(prev, next, px, t) ==
  /\ Len(next) = Len(prev) + 1
  /\ \E k \in 1..Len(next) :
       /\ next[k].x = px.x /\ next[k].y = px.y /\ next[k].time = t
       /\ withoutIndex(next, k) = prev

C25_FrameAccurate ==
  [][ /\ stepForward => (currentTime' = currentTime \/ Gt(currentTime', currentTime))
      /\ stepBackward => Le(currentTime', currentTime)
      /\ (stepForward \/ stepBackward) =>
           /\ Ge(currentTime', Zero) /\ Le(currentTime', duration)
           /\ currentFrameIndex' >= 0 ]_vars

\* The index of the point recorded last: the one with the largest id.
latestIndex(pts) == CHOOSE k \in 1..Len(pts) : \A j \in 1..Len(pts) : pts[j].id <= pts[k].id

\* C29: undoLastPoint removes the point of the active track that was recorded
\* last and leaves the others in place, whatever their timestamps.
C29_UndoRemovesLatest ==
  [][ undoLastPoint =>
        objects'[activeObjId] = withoutIndex(objects[activeObjId],
                                             latestIndex(objects[activeObjId])) ]_vars
(***************************************************************************)
(* Properties of the calibration modal and of the modes (Spec).             *)
(***************************************************************************)
\* C26: while the distance modal is open, calibrationPoints holds exactly two
\* points, so that submitCalibration finds both points it reads.
C26_ModalHasTwoPoints == showInputModal => Len(calibrationPoints) = 2
(***************************************************************************)
(* SpecProject: the settings of a project, its file and the video file.    *)
(* The project input is given a file from ProjectFiles or the file that     *)
(* saveProject writes in the current state.                                 *)
(***************************************************************************)
\* JSON.stringify of a number: NaN and the infinities are written as null.
jsonNumber(v) == IF v # NULL /\ v.d = 0 THEN NULL ELSE v

\* The project file written by saveProject, as JSON.parse reads it back.
saveProject ==
  [ invalid |-> FALSE,
    absent |-> {"points"},
    objects |-> objects, activeObjId |-> activeObjId, points |-> <<>>,
    calibrationPoints |-> calibrationPoints,
    pixelsPerMeter |-> jsonNumber(pixelsPerMeter),
    origin |-> origin, originAngle |-> originAngle,
    zeroTime |-> zeroTime, fitModel |-> fitModel,
    uncertaintyPx |-> jsonNumber(uncertaintyPx), language |-> language,
    fps |-> fps ]

\* The positions of the uncertainty slider the model follows, of 0..50.
UncertaintyInputs == {0, 10, 25}

\* The uncertainty slider of the sidebar (onChange).
setUncertaintyPx(v) ==
  /\ Num(v) # uncertaintyPx
  /\ uncertaintyPx' = Num(v)
  /\ lastAlert' = NoAlert
  /\ UNCHANGED <<trackVars, pixelsPerMeter, origin, originAngle, zeroTime, calibVars,
                 modeVars, videoVars, fitModel, plotX, plotY, scaleVars, pointerVars,
                 playerVars, prefVars>>
  /\ Render

\* The language entry of the menu.
toggleLanguage ==
  /\ language' = IF language = "en" THEN "es" ELSE "en"
  /\ lastAlert' = NoAlert
  /\ UNCHANGED <<trackVars, frameVars, calibVars, modeVars, videoVars, seriesVars,
                 graphVars, scaleVars, pointerVars, playerVars, fps>>

NextProject ==
  \/ \E v \in UncertaintyInputs : setUncertaintyPx(v)
  \/ toggleLanguage
  \/ \E v \in FpsOptions : setFps(v)
  \/ toggleZeroTime
  \/ \E m \in FitModels : setFitModel(m)
  \/ handleFileUpload
  \/ \E size \in VideoSizes : handleVideoLoaded(size)
  \/ \E data \in ProjectFiles : loadProject(data)
  \/ loadProject(saveProject)

SpecProject == Init /\ [][NextProject]_vars

\* The project state that a project file carries.
projectState ==
  [ objects |-> objects, activeObjId |-> activeObjId,
    calibrationPoints |-> calibrationPoints, pixelsPerMeter |-> pixelsPerMeter,
    origin |-> origin, originAngle |-> originAngle, zeroTime |-> zeroTime,
    fitModel |-> fitModel, uncertaintyPx |-> uncertaintyPx, language |-> language,
    fps |-> fps ]

\* C23: in every reachable state, what loadProject restores from the file that
\* saveProject writes is the project state that was saved.
C23_RoundTrip == restoredProject(saveProject) = projectState

\* C30: an upload made while the restored flag is set keeps both tracks,
\* calibrationPoints, pixelsPerMeter, origin, originAngle, fitModel, zeroTime
\* and uncertaintyPx and clears the flag; an upload made while it is clear
\* resets the tracks, the calibration, the origin, the rotation and the fit
\* model; no upload changes fps.
C30_SmartWipe ==
  [][ handleFileUpload =>
        /\ fps' = fps
        /\ IF hasRestoredData
           THEN /\ UNCHANGED <<objects, calibrationPoints, pixelsPerMeter, origin,
                               originAngle, fitModel, zeroTime, uncertaintyPx>>
                /\ hasRestoredData' = FALSE
           ELSE /\ objects' = NoObjects
                /\ calibrationPoints' = <<>>
                /\ pixelsPerMeter' = NULL
                /\ origin' = NULL
                /\ originAngle' = Angle0
                /\ fitModel' = "none" ]_vars
(***************************************************************************)
(* SpecCalib and SpecCanvas: the canvas of a loaded video.  SpecCalib       *)
(* follows the calibration: the scale button, the pointer dragging the      *)
(* calibration points between the two places where the button puts them,    *)
(* and the distance modal.  SpecCanvas follows the modes: the header        *)
(* buttons, the modal, the video input and the pointer going down, moving   *)
(* and being released at the place of the first calibration point.          *)
(***************************************************************************)
CalibPointer == { Pt(Num(400), Num(250)), Pt(Num(600), Num(250)) }
CalibDistances == { <<"0">>, <<"2">>, InitialDistanceInput }
CanvasPointer == Pt(Num(400), Num(250))

InitCanvas ==
  /\ objects = NoObjects
  /\ activeObjId = "A"
  /\ pixelsPerMeter = NULL
  /\ origin = NULL
  /\ originAngle = Angle0
  /\ zeroTime = TRUE
  /\ uncertaintyPx = Num(10)
  /\ calibrationPoints = <<>>
  /\ isCalibrating = FALSE
  /\ showInputModal = FALSE
  /\ realDistanceInput = InitialDistanceInput
  /\ isScaleVisible = TRUE
  /\ isTracking = FALSE
  /\ isSettingOrigin = FALSE
  /\ videoSrc = TRUE
  /\ videoDims = TrackVideo
  /\ hasRestoredData = FALSE
  /\ lastAlert = NoAlert
  /\ InitPointer
  /\ InitPlayer
  /\ InitAnalysis
  /\ InitDerived

NextCalib ==
  \/ handleScaleButtonClick
  \/ enterDistanceClick
  \/ \E text \in CalibDistances : setRealDistanceInput(text)
  \/ submitCalibration
  \/ cancelCalibration
  \/ resetScale
  \/ \E p \in CalibPointer : handlePointerDown(p.x, p.y)
  \/ \E p \in CalibPointer : handlePointerMove(p.x, p.y, FALSE)
  \/ \E p \in CalibPointer : handlePointerUp(p.x, p.y)

SpecCalib == InitCanvas /\ [][NextCalib]_vars

NextCanvas ==
  \/ toggleTracking
  \/ originButtonClick
  \/ handleScaleButtonClick
  \/ enterDistanceClick
  \/ submitCalibration
  \/ cancelCalibration
  \/ resetScale
  \/ handleFileUpload
  \/ handleVideoLoaded(TrackVideo)
  \/ handlePointerDown(CanvasPointer.x, CanvasPointer.y)
  \/ handlePointerMove(CanvasPointer.x, CanvasPointer.y, FALSE)
  \/ handlePointerUp(CanvasPointer.x, CanvasPointer.y)

SpecCanvas == InitCanvas /\ [][NextCanvas]_vars

\* submitCalibration has accepted the distance: the modal that was open is
\* closed by it.
calibrationAccepted == submitCalibration /\ showInputModal /\ ~showInputModal'

\* C27: whenever submitCalibration accepts the entered distance, the stored
\* pixelsPerMeter is a finite number above zero, the pixel distance between the
\* two calibration points divided by the metres entered, and counts as a scale
\* that is set.
C27_AcceptedScaleIsPositive ==
  [][ calibrationAccepted =>
        /\ ~isCalibrating'
        /\ pixelsPerMeter' # NULL
        /\ pixelsPerMeter'.d # 0
        /\ Gt(pixelsPerMeter', Zero)
        /\ Truthy(pixelsPerMeter')
        /\ Mul(pixelsPerMeter', parseFloat(realDistanceInput))
             = distPxOf(calibrationPoints[1], calibrationPoints[2]) ]_vars

\* C28: at most one of the modes isTracking, isSettingOrigin and isCalibrating
\* is on.
C28_OneModeAtMost ==
  /\ ~(isTracking /\ isSettingOrigin)
  /\ ~(isTracking /\ isCalibrating)
  /\ ~(isSettingOrigin /\ isCalibrating)

\* Calibration is on, after a point was tracked and the origin was placed with
\* the pointer.
C28_Witness ==
  /\ isCalibrating /\ ~isTracking /\ ~isSettingOrigin
  /\ Len(points) > 0
  /\ origin = CanvasPointer
  /\ Len(calibrationPoints) = 2

====
